---- MODULE Spec2Model ----
(***************************************************************************)
(* The mail store of jmap-webmail (the zustand store useEmailStore), the   *)
(* JMAP client calls it makes, and the parts of the session store and the  *)
(* settings store it depends on.                                           *)
(*                                                                         *)
(* Every asynchronous store operation is split where the code awaits: the  *)
(* call action runs the synchronous prefix (early returns included) and    *)
(* puts the client request in `pending`; the Done action is the            *)
(* continuation, run when the request settles with one of Outcomes.        *)
(* Values captured by the closure before the await (const email, the       *)
(* destructured emails/mailboxes of the batch operations) travel in the    *)
(* pending record; everything read through get() or set(state => ...) is   *)
(* read from the state at completion.                                      *)
(***************************************************************************)
EXTENDS Integers, Sequences, FiniteSets, TLC

(***************************************************************************)
(* Bounds of the model.                                                    *)
(***************************************************************************)
\* The emails the server can hold.
NumEmails == 2
\* The emails of the inbox the server counts beyond those it lists.
MaxHidden == 0
\* The cap on a mailbox counter.
MaxCount == 3
\* The client requests in flight at once.
MaxInFlight == 2
\* The mutation requests of a run.
MaxMutations == 2
\* The fetchMailboxes / fetchEmails calls of a run.
MaxLoads == 2

EmailIds == 1..NumEmails

(***************************************************************************)
(* Values.                                                                 *)
(***************************************************************************)
NULL == "null"
NoId == 0
PrimaryAccount == "primary"

\* The absent email (find() returning undefined, selectedEmail: null).
NoEmail == [id |-> NoId, seen |-> FALSE, flagged |-> FALSE, mailboxIds |-> {}]

\* The absent mailbox (find() returning undefined).
NoMailbox ==
  [id |-> "", role |-> "", isShared |-> FALSE, accountId |-> "", originalId |-> "",
   parentId |-> "",
   totalEmails |-> 0, unreadEmails |-> 0, totalThreads |-> 0, unreadThreads |-> 0]

\* How a client request settles: accepted; answered 2xx with a
\* notUpdated / notDestroyed / notCreated entry for the target; or failed
\* (non-2xx status, network error, invalid JSON).
Outcomes == {"ok", "rejected", "failed"}

\* The two ways a request settles for its caller.
Settled == {"ok", "failed"}

MailboxIds == {"inbox", "archive", "trash"}

VARIABLES
  emails,               \* Email[]: the current page
  mailboxes,            \* Mailbox[]
  selectedEmail,        \* Email | null
  selectedMailbox,      \* string, "" when none
  isLoading,
  error,                \* string | null
  processingReadStatus, \* Set<string>: keys `${emailId}-${read}`
  selectedEmailIds,     \* Set<string>
  deleteAction,         \* settings store: 'trash' | 'permanent'
  isAuthenticated,      \* session store
  pending,              \* client requests in flight, with the caller's closure
  ev,                   \* the mutation step just taken
  mutations,            \* how many mutation requests were sent
  loads,                \* how many list requests were sent
  server                \* what the server holds

VARIABLES
  hasMoreEmails,        \* whether the server has emails beyond the page
  totalEmails,          \* the total the last query reported
  isLoadingMore,
  newEmailNotification, \* Email | null, here the id of the email or NoId
  lastPushUpdate,       \* number | null, here the count of the update or 0
  emailsPerPage,        \* settings store
  reportsTotal,         \* whether the server's Email/query answers carry `total`
  args,                 \* the arguments of the library function under study
  result,               \* what it returned
  apiUrl,               \* JMAPClient: "" until connected
  clientAccountId,           \* JMAPClient: "" until connected
  pingInterval,         \* JMAPClient: whether the keep-alive handle is set
  pollingInterval,      \* JMAPClient: whether the poll handle is set
  pollTimers,           \* the poll intervals the runtime holds
  pollingStates,        \* JMAPClient: the recorded tokens, 0 for none
  stateChangeCallback,  \* JMAPClient: whether a callback is registered
  clientCalls,          \* the client's own requests in flight
  serverStates,         \* the state tokens of the server
  cancelled,            \* which timers the caller cancelled last
  cev,                  \* the client step just taken
  client,               \* session store: JMAPClient | null
  serverUrl,            \* session store: string | null
  username,             \* session store: string | null
  authLoading,          \* session store: isLoading
  authError,            \* session store: error
  persisted,            \* localStorage['auth-storage']
  lifetime,             \* the page loads so far
  logins,               \* session store: login calls in flight
  expandedThreadIds,    \* Set<string>
  threadEmailsCache,    \* Map<string, Email[]>, here thread id -> email ids
  isLoadingThread,      \* string | null
  threadCalls,          \* getThreadEmails requests in flight
  tev,                  \* the thread step just taken
  markAsReadDelay,      \* settings store: ms, 0 = instant, -1 = never
  isMobile,             \* Home: whether the layout is the mobile one
  markAsReadTimeoutRef, \* Home: the email its pending timer is for, or NoId
  conversationThread,   \* Home: whether a conversation is open
  conversationEmails,   \* Home: the emails of the open conversation
  expandedIds,          \* ThreadConversationView: the expanded emails
  cardTimeouts,         \* the emails whose EmailCard holds a pending timer
  rev,                  \* the reading step just taken
  isPushConnected,      \* mail store
  loadData,             \* Home: where its loadData() stands
  effectDeps            \* Home: the mailboxes.length its load effect ran for

\* The page state that only the paginated fetches write.
pageRest == <<isLoadingMore, newEmailNotification, lastPushUpdate>>

\* What the store is configured with and what it faces.
env == <<emailsPerPage, reportsTotal>>

fnVars == <<args, result>>

clientVars ==
  <<apiUrl, clientAccountId, pingInterval, pollingInterval, pollTimers,
    pollingStates, stateChangeCallback, clientCalls, serverStates, cancelled,
    cev>>

\* The session store besides isAuthenticated, and the page it lives in.
authVars ==
  <<client, serverUrl, username, authLoading, authError, persisted, lifetime,
    logins>>

\* The thread expansion state of the mail store.
threadState == <<expandedThreadIds, threadEmailsCache, isLoadingThread>>

threadVars == <<threadState, threadCalls, tev>>

\* What the components that show emails hold, and the setting they read.
readingVars ==
  <<markAsReadDelay, isMobile, markAsReadTimeoutRef, conversationThread,
    conversationEmails, expandedIds, cardTimeouts, rev>>

\* The state of the page's components and of what they drive.
\* The push indicator of the store and the effect of Home that sets it.
pushVars == <<isPushConnected, loadData, effectDeps>>

uiVars == <<threadVars, readingVars, pushVars>>

\* The state outside the page.
others == <<fnVars, clientVars, authVars, uiVars>>

ext == <<hasMoreEmails, totalEmails, pageRest, env, others>>

vars ==
  <<emails, mailboxes, selectedEmail, selectedMailbox, isLoading, error,
    processingReadStatus, selectedEmailIds, deleteAction, isAuthenticated,
    pending, ev, mutations, loads, server, ext>>

(***************************************************************************)
(* Helpers.                                                                *)
(***************************************************************************)
\* A subtraction written without the clamp.
Unclamped(x) == x

\* Math.max(0, x)
Max0(x) == IF x < 0 THEN 0 ELSE x

Indices(s) == 1..Len(s)

\* Array.prototype.filter
RECURSIVE FilterSeq(_, _)
FilterSeq(s, keep) ==
  IF s = <<>> THEN <<>>
  ELSE IF Head(s).id \in keep
       THEN <<Head(s)>> \o FilterSeq(Tail(s), keep)
       ELSE FilterSeq(Tail(s), keep)

\* emails.find(e => e.id === id)
FindEmail(es, id) ==
  IF \E i \in Indices(es) : es[i].id = id
  THEN es[CHOOSE i \in Indices(es) :
            es[i].id = id /\ \A j \in 1..(i - 1) : es[j].id # id]
  ELSE NoEmail

\* mailboxes.find(mb => mb.id === id)
FindMailbox(mbs, id) ==
  IF \E i \in Indices(mbs) : mbs[i].id = id
  THEN mbs[CHOOSE i \in Indices(mbs) :
             mbs[i].id = id /\ \A j \in 1..(i - 1) : mbs[j].id # id]
  ELSE NoMailbox

PageIds(es) == {es[i].id : i \in Indices(es)}

RemoveAt(s, i) == SubSeq(s, 1, i - 1) \o SubSeq(s, i + 1, Len(s))

\* `${emailId}-${read}`
ProcessingKey(id, read) == <<id, read>>

(***************************************************************************)
(* The mail server.  Its content is fixed for a run and chosen in Init:    *)
(* the emails it lists (newest first), whether the account has a trash     *)
(* mailbox, and how many further read emails each mailbox holds beyond     *)
(* the ones listed.  Mailbox counters are the counts of that content, one  *)
(* thread per email.                                                       *)
(***************************************************************************)
\* Email id as the server holds it: odd ids unread and in the inbox only,
\* even ids read and in the inbox and the archive.
ServerEmail(id) ==
  [id |-> id, seen |-> (id % 2 = 0), flagged |-> FALSE,
   mailboxIds |-> IF id % 2 = 1 THEN {"inbox"} ELSE {"inbox", "archive"}]

\* The server lists the emails 1..n, n <= NumEmails.
ServerListings == {[k \in 1..n |-> ServerEmail(k)] : n \in 0..NumEmails}

ServerWorlds ==
  [listing : ServerListings, hasTrash : BOOLEAN, hidden : 0..MaxHidden]

ServerTree(w) ==
  IF w.hasTrash THEN <<"inbox", "archive", "trash">> ELSE <<"inbox", "archive">>

InMailbox(es, mailboxId) ==
  {i \in Indices(es) : mailboxId \in es[i].mailboxIds}

\* One mailbox as getAllMailboxes maps it for the primary account.
PrimaryMailbox(id, total, unread) ==
  [id |-> id, role |-> id, isShared |-> FALSE, accountId |-> PrimaryAccount,
   originalId |-> id, parentId |-> "",
   totalEmails |-> total, unreadEmails |-> unread,
   totalThreads |-> total, unreadThreads |-> unread]

\* The Mailbox/get answer for the primary account.
ServerMailboxes(w) ==
  [k \in Indices(ServerTree(w)) |->
     LET m == ServerTree(w)[k]
         members == InMailbox(w.listing, m)
     IN  PrimaryMailbox(m, w.hidden + Cardinality(members),
                        Cardinality({i \in members : ~w.listing[i].seen}))]

RECURSIVE InMailboxSeq(_, _)
InMailboxSeq(es, mailboxId) ==
  IF es = <<>> THEN <<>>
  ELSE IF mailboxId = "" \/ mailboxId \in Head(es).mailboxIds
       THEN <<Head(es)>> \o InMailboxSeq(Tail(es), mailboxId)
       ELSE InMailboxSeq(Tail(es), mailboxId)

\* The Email/query + Email/get answer: the listed emails of the mailbox
\* ("" = no inMailbox filter).
ServerPage(w, mailboxId) == InMailboxSeq(w.listing, mailboxId)

(***************************************************************************)
(* Requests in flight and the step just taken.                             *)
(***************************************************************************)
Call(op) ==
  [op |-> op, id |-> NoId, read |-> FALSE, dest |-> "", mode |-> "",
   isUnread |-> FALSE, mailboxIds |-> {}, ids |-> {}, emails |-> <<>>,
   mailboxes |-> <<>>, types |-> {}]

Event(op, phase, out) ==
  [op |-> op, phase |-> phase, out |-> out, id |-> NoId, read |-> FALSE,
   dest |-> "", mode |-> "", isUnread |-> FALSE, mailboxIds |-> {},
   resolved |-> FALSE, thrown |-> FALSE, patched |-> FALSE,
   account |-> "", types |-> {}, first |-> NoId]

\* Any step that is not a step of a mutation.
Idle == Event("", "", "")

CanCall == isAuthenticated /\ Len(pending) < MaxInFlight

CanMutate == Len(pending) < MaxInFlight /\ mutations < MaxMutations

storeVars ==
  <<emails, mailboxes, selectedEmail, selectedMailbox, isLoading, error,
    processingReadStatus, selectedEmailIds>>

\* The cap on the counters of the model.
Bounded(mbs) ==
  \A i \in Indices(mbs) :
    /\ mbs[i].totalEmails <= MaxCount /\ mbs[i].unreadEmails <= MaxCount
    /\ mbs[i].totalThreads <= MaxCount /\ mbs[i].unreadThreads <= MaxCount

(***************************************************************************)
(* The page state as the store creates it, and the settings' default.      *)
(***************************************************************************)
DefaultEmailsPerPage == 50

PageAsCreated ==
  /\ hasMoreEmails = FALSE
  /\ totalEmails = 0
  /\ isLoadingMore = FALSE
  /\ newEmailNotification = NoId
  /\ lastPushUpdate = 0

\* The types the client polls the state of.
PolledTypes == {"Mailbox", "Email"}

\* pollingStates = {}
NoStates == [t \in PolledTypes |-> 0]

\* A client step that is not the completion of a poll.
NoTick ==
  [op |-> "", ok |-> FALSE, invoked |-> 0, account |-> "",
   changed |-> NoStates, previous |-> NoStates, returned |-> NoStates]

\* The client as constructed, facing a server in some state.
ClientAsCreated ==
  /\ apiUrl = ""
  /\ clientAccountId = ""
  /\ pingInterval = FALSE
  /\ pollingInterval = FALSE
  /\ pollTimers = 0
  /\ pollingStates = NoStates
  /\ stateChangeCallback = FALSE
  /\ clientCalls = <<>>
  /\ serverStates = [t \in PolledTypes |-> 1]
  /\ cancelled = [keepAlive |-> FALSE, poll |-> FALSE]
  /\ cev = NoTick

\* client: null
NoClient == [serverUrl |-> NULL, username |-> NULL, password |-> NULL,
             authHeader |-> NULL, connected |-> FALSE, lifetime |-> 0]

\* No item 'auth-storage' in localStorage.
Absent == [absent |-> TRUE]

\* The session store as created on the first page load, nothing stored.
SessionAsCreated ==
  /\ client = NoClient
  /\ serverUrl = NULL
  /\ username = NULL
  /\ authLoading = FALSE
  /\ authError = NULL
  /\ persisted = Absent
  /\ lifetime = 1
  /\ logins = <<>>

\* No thread is cached.
NoThreads == <<>>

\* No thread step was taken.
NoThreadStep == [op |-> "", phase |-> "", threadId |-> "",
                 returned |-> <<>>, threw |-> FALSE]

\* The thread expansion state as created.
ThreadsAsCreated ==
  /\ expandedThreadIds = {}
  /\ threadEmailsCache = NoThreads
  /\ isLoadingThread = NULL
  /\ threadCalls = <<>>
  /\ tev = NoThreadStep

\* No reading step was taken.
NoReading == [op |-> "", id |-> NoId, marks |-> {}]

\* The components that show emails as mounted, nothing selected.
ViewsAsMounted ==
  /\ markAsReadTimeoutRef = NoId
  /\ conversationThread = FALSE
  /\ conversationEmails = <<>>
  /\ expandedIds = {}
  /\ cardTimeouts = {}
  /\ rev = NoReading

\* The load effect of Home has not run.
NoDeps == -1

\* isPushConnected: false, and Home before its effects run.
PushAsCreated ==
  /\ isPushConnected = FALSE
  /\ loadData = ""
  /\ effectDeps = NoDeps

\* The components as mounted.
UiAsCreated ==
  /\ ThreadsAsCreated
  /\ ViewsAsMounted
  /\ PushAsCreated
  /\ markAsReadDelay = 0
  /\ isMobile = FALSE

\* No library function is under study.
NoFunction ==
  /\ args = <<>>
  /\ result = <<>>

(***************************************************************************)
(* Init: the stores as created, facing some server.                        *)
(***************************************************************************)
\* The mail store as created, nothing in flight.
StoreAsCreated ==
  /\ emails = <<>>
  /\ mailboxes = <<>>
  /\ selectedEmail = NoEmail
  /\ selectedMailbox = ""
  /\ isLoading = FALSE
  /\ error = NULL
  /\ processingReadStatus = {}
  /\ selectedEmailIds = {}
  /\ pending = <<>>
  /\ ev = Idle
  /\ mutations = 0
  /\ loads = 0

Init ==
  /\ server \in ServerWorlds
  /\ deleteAction \in {"trash", "permanent"}
  /\ isAuthenticated = FALSE
  /\ StoreAsCreated
  /\ PageAsCreated
  /\ emailsPerPage = DefaultEmailsPerPage
  /\ reportsTotal = FALSE
  /\ NoFunction
  /\ ClientAsCreated
  /\ SessionAsCreated
  /\ UiAsCreated

(***************************************************************************)
(* Session store and settings store.                                       *)
(***************************************************************************)
\* `Basic ${btoa(`${username}:${password}`)}`
AuthHeader(user, password) ==
  "Basic " \o "b64(" \o user \o ":" \o password \o ")"

\* new JMAPClient(serverUrl, username, password), connected or not, made
\* in the page load `page`.
NewClient(url, user, password, connected, page) ==
  [serverUrl |-> url, username |-> user, password |-> password,
   authHeader |-> AuthHeader(user, password), connected |-> connected,
   lifetime |-> page]

\* A store persisted without partialize: the whole state is written.
PersistWholeState(st) == st

\* partialize: (state) => ({serverUrl: state.serverUrl, username: state.username})
Partialize(st) == [serverUrl |-> st.serverUrl, username |-> st.username]

\* The state of the session store.
SessionState(authenticated, loading, err, url, user, cl) ==
  [isAuthenticated |-> authenticated, isLoading |-> loading, error |-> err,
   serverUrl |-> url, username |-> user, client |-> cl]

\* The credentials of the user of the mail store's runs.
TheUrl == "https://mail"
TheUser == "alice"
ThePassword == "secret"

\* login, the connect() having succeeded.
Login ==
  /\ ~isAuthenticated
  /\ isAuthenticated' = TRUE
  /\ client' = NewClient(TheUrl, TheUser, ThePassword, TRUE, lifetime)
  /\ serverUrl' = TheUrl
  /\ username' = TheUser
  /\ authLoading' = FALSE
  /\ authError' = NULL
  /\ persisted' = Partialize(SessionState(TRUE, FALSE, NULL, TheUrl, TheUser,
                                          client'))
  /\ ev' = Idle
  /\ UNCHANGED <<storeVars, deleteAction, pending, mutations, loads, server,
                 hasMoreEmails, totalEmails, pageRest, env, fnVars,
                 clientVars, lifetime, logins, uiVars>>

\* logout: the session forgotten (isLoading is left as it is), the item
\* removed from localStorage, and the email store's emails, mailboxes,
\* selectedEmail, selectedMailbox, isLoading, error reset (searchQuery and
\* quota are not modelled).
Logout ==
  /\ isAuthenticated
  /\ isAuthenticated' = FALSE
  /\ client' = NoClient
  /\ serverUrl' = NULL
  /\ username' = NULL
  /\ authError' = NULL
  /\ persisted' = Absent
  /\ emails' = <<>>
  /\ mailboxes' = <<>>
  /\ selectedEmail' = NoEmail
  /\ selectedMailbox' = ""
  /\ isLoading' = FALSE
  /\ error' = NULL
  /\ ev' = Idle
  /\ UNCHANGED <<processingReadStatus, selectedEmailIds, deleteAction,
                 pending, mutations, loads, server, hasMoreEmails,
                 totalEmails, pageRest, env, fnVars, clientVars, authLoading,
                 lifetime, logins, uiVars>>

(***************************************************************************)
(* Synchronous store operations.                                           *)
(***************************************************************************)
SelectEmail(e) ==
  /\ isAuthenticated
  /\ e # selectedEmail
  /\ selectedEmail' = e
  /\ ev' = Idle
  /\ UNCHANGED <<emails, mailboxes, selectedMailbox, isLoading, error,
                 processingReadStatus, selectedEmailIds, deleteAction,
                 isAuthenticated, pending, mutations, loads, server, ext>>

SelectMailbox(mailboxId) ==
  /\ isAuthenticated
  /\ selectedMailbox' = mailboxId
  /\ selectedEmail' = NoEmail
  /\ selectedEmailIds' = {}
  /\ expandedThreadIds' = {}
  /\ threadEmailsCache' = NoThreads
  /\ isLoadingThread' = NULL
  /\ ev' = Idle
  /\ UNCHANGED <<emails, mailboxes, isLoading, error, processingReadStatus,
                 deleteAction, isAuthenticated, pending, mutations, loads,
                 server, hasMoreEmails, totalEmails, pageRest, env, fnVars,
                 clientVars, authVars, threadCalls, tev, readingVars, pushVars>>

ToggleEmailSelection(emailId) ==
  /\ isAuthenticated
  /\ selectedEmailIds' =
       IF emailId \in selectedEmailIds
       THEN selectedEmailIds \ {emailId}
       ELSE selectedEmailIds \cup {emailId}
  /\ ev' = Idle
  /\ UNCHANGED <<emails, mailboxes, selectedEmail, selectedMailbox, isLoading,
                 error, processingReadStatus, deleteAction, isAuthenticated,
                 pending, mutations, loads, server, ext>>

SelectAllEmails ==
  /\ isAuthenticated
  /\ selectedEmailIds' = PageIds(emails)
  /\ ev' = Idle
  /\ UNCHANGED <<emails, mailboxes, selectedEmail, selectedMailbox, isLoading,
                 error, processingReadStatus, deleteAction, isAuthenticated,
                 pending, mutations, loads, server, ext>>

ClearSelection ==
  /\ isAuthenticated
  /\ selectedEmailIds' = {}
  /\ ev' = Idle
  /\ UNCHANGED <<emails, mailboxes, selectedEmail, selectedMailbox, isLoading,
                 error, processingReadStatus, deleteAction, isAuthenticated,
                 pending, mutations, loads, server, ext>>

(***************************************************************************)
(* fetchMailboxes.                                                         *)
(***************************************************************************)
FetchMailboxes ==
  /\ CanCall
  /\ loads < MaxLoads
  /\ loads' = loads + 1
  /\ isLoading' = TRUE
  /\ error' = NULL
  /\ pending' = Append(pending, Call("fetchMailboxes"))
  /\ ev' = Idle
  /\ UNCHANGED <<emails, mailboxes, selectedEmail, selectedMailbox,
                 processingReadStatus, selectedEmailIds, deleteAction,
                 isAuthenticated, mutations, server, ext>>

\* mailboxes.find(m => m.role === 'inbox' && !m.isShared)
FindInbox(mbs) ==
  IF \E i \in Indices(mbs) : mbs[i].role = "inbox" /\ ~mbs[i].isShared
  THEN mbs[CHOOSE i \in Indices(mbs) :
             /\ mbs[i].role = "inbox" /\ ~mbs[i].isShared
             /\ \A j \in 1..(i - 1) : ~(mbs[j].role = "inbox" /\ ~mbs[j].isShared)]
  ELSE NoMailbox

\* getAllMailboxes: the mailboxes of the accounts whose Mailbox/get
\* succeeded; a failed account is skipped.
GetAllMailboxes(w, out) ==
  IF out = "failed" THEN <<>> ELSE ServerMailboxes(w)

FetchMailboxesDone(i, out) ==
  /\ pending[i].op = "fetchMailboxes"
  /\ LET mbs == GetAllMailboxes(server, out)
     IN  /\ mailboxes' = mbs
         /\ selectedMailbox' =
              IF selectedMailbox = "" /\ FindInbox(mbs) # NoMailbox
              THEN FindInbox(mbs).id
              ELSE selectedMailbox
  /\ isLoading' = FALSE
  /\ pending' = RemoveAt(pending, i)
  /\ ev' = Idle
  /\ UNCHANGED <<emails, selectedEmail, error, processingReadStatus,
                 selectedEmailIds, deleteAction, isAuthenticated, mutations, loads, server, ext>>

(***************************************************************************)
(* fetchEmails.                                                            *)
(***************************************************************************)
\* The synchronous prefix of fetchEmails(client, mailboxId):
\* set({isLoading: true, error: null}) and the getEmails request.
FetchEmailsCall(mailboxId) ==
  [Call("fetchEmails") EXCEPT !.dest = mailboxId]

FetchEmails ==
  /\ CanCall
  /\ loads < MaxLoads
  /\ loads' = loads + 1
  /\ isLoading' = TRUE
  /\ error' = NULL
  /\ pending' = Append(pending, FetchEmailsCall(selectedMailbox))
  /\ ev' = Idle
  /\ UNCHANGED <<emails, mailboxes, selectedEmail, selectedMailbox,
                 processingReadStatus, selectedEmailIds, deleteAction,
                 isAuthenticated, mutations, server, ext>>

\* The ids Email/query answers: `limit` matches from `position` on.
QueryIds(matching, limit, position) ==
  SubSeq(matching, position + 1,
         IF position + limit < Len(matching) THEN position + limit
                                             ELSE Len(matching))

\* queryResponse?.total || 0
QueryTotal(matching, reports) == IF reports THEN Len(matching) ELSE 0

\* A page that is followed by another whenever it is not empty.
HasMoreIfAny(total, position, n, limit) == n > 0

\* const hasMore = total > 0 ? (position + emails.length) < total
\*                            : emails.length === limit;
HasMore(total, position, n, limit) ==
  IF total > 0 THEN position + n < total ELSE n = limit

\* What getEmails returns when the request fails or the answer is not an
\* Email/get answer.
EmptyPage == [emails |-> <<>>, hasMore |-> FALSE, total |-> 0]

\* getEmails(mailboxId, accountId, limit, position) for the primary
\* account.  It fails soft: any error returns the empty page.
GetEmails(w, reports, mailboxId, limit, position, out) ==
  IF out # "ok" THEN EmptyPage
  ELSE LET matching == ServerPage(w, mailboxId)
           list == QueryIds(matching, limit, position)
           total == QueryTotal(matching, reports)
       IN  [emails |-> list,
            hasMore |-> HasMore(total, position, Len(list), limit),
            total |-> total]

FetchEmailsDone(i, out) ==
  /\ pending[i].op = "fetchEmails"
  /\ LET page == GetEmails(server, reportsTotal, pending[i].dest,
                           emailsPerPage, 0, out)
     IN  /\ emails' = page.emails
         /\ hasMoreEmails' = page.hasMore
         /\ totalEmails' = page.total
  /\ isLoading' = FALSE
  /\ pending' = RemoveAt(pending, i)
  /\ ev' = Idle
  /\ UNCHANGED <<mailboxes, selectedEmail, selectedMailbox, error,
                 processingReadStatus, selectedEmailIds, deleteAction,
                 isAuthenticated, mutations, loads, server, pageRest, env,
                 others>>

(***************************************************************************)
(* The client's mutation calls.                                            *)
(***************************************************************************)
\* Whether the promise of a client call resolves (TRUE) or rejects (FALSE).
\* request() throws on a failed request only; of the mutation calls,
\* createDraft and sendEmail alone look for notCreated / notUpdated in the
\* response.
\* A client whose promise resolves whatever the transport did.
AlwaysResolves(method, out) == TRUE

ClientResolves(method, out) ==
  IF method \in {"createDraft", "sendEmail"}
  THEN out = "ok"
  ELSE out # "failed"

\* The message the store records: error.message of the Error thrown.
ErrorMessage(out) ==
  IF out = "rejected" THEN "rejected by the server" ELSE "Request failed"

(***************************************************************************)
(* Counter patches.                                                        *)
(***************************************************************************)
\* The mailbox object written for a mailbox the email leaves.
EmailLeaving(mb, isUnread) ==
  [mb EXCEPT !.totalEmails = Max0(@ - 1),
             !.unreadEmails = IF isUnread THEN Max0(@ - 1) ELSE @,
             !.totalThreads = Max0(@ - 1),
             !.unreadThreads = IF isUnread THEN Max0(@ - 1) ELSE @]

\* The mailbox object written for the mailbox the email arrives in.
EmailArriving(mb, isUnread) ==
  [mb EXCEPT !.totalEmails = @ + 1,
             !.unreadEmails = IF isUnread THEN @ + 1 ELSE @,
             !.totalThreads = @ + 1,
             !.unreadThreads = IF isUnread THEN @ + 1 ELSE @]

\* A patch that adjusts every mailbox, whatever the email's membership.
MarkAsReadEveryMailbox(mbs, emailInState, read) ==
  [k \in Indices(mbs) |->
     LET delta == IF read THEN -1 ELSE 1
     IN  [mbs[k] EXCEPT !.unreadEmails = IF @ + delta < 0 THEN 0 ELSE @ + delta,
                        !.unreadThreads = IF @ + delta < 0 THEN 0 ELSE @ + delta]]

\* markAsRead: state.mailboxes.map(...) with delta = read ? -1 : 1.
MarkAsReadMailboxes(mbs, emailInState, read) ==
  [k \in Indices(mbs) |->
     IF mbs[k].id \in emailInState.mailboxIds
     THEN LET delta == IF read THEN -1 ELSE 1
          IN  [mbs[k] EXCEPT !.unreadEmails = Max0(@ + delta),
                             !.unreadThreads = Max0(@ + delta)]
     ELSE mbs[k]]

\* deleteEmail, trash branch: leaving first, else arriving in the trash.
TrashMailboxes(mbs, mailboxIds, isUnread, trashId) ==
  [k \in Indices(mbs) |->
     IF mbs[k].id \in mailboxIds THEN EmailLeaving(mbs[k], isUnread)
     ELSE IF mbs[k].id = trashId THEN EmailArriving(mbs[k], isUnread)
     ELSE mbs[k]]

\* deleteEmail, permanent branch.
PermanentMailboxes(mbs, mailboxIds, isUnread) ==
  [k \in Indices(mbs) |->
     IF mbs[k].id \in mailboxIds THEN EmailLeaving(mbs[k], isUnread) ELSE mbs[k]]

\* moveToMailbox: leaving the current mailboxes, else arriving in the
\* destination.
MoveMailboxes(mbs, currentMailboxIds, isUnread, destinationMailboxId) ==
  [k \in Indices(mbs) |->
     IF mbs[k].id \in currentMailboxIds THEN EmailLeaving(mbs[k], isUnread)
     ELSE IF mbs[k].id = destinationMailboxId THEN EmailArriving(mbs[k], isUnread)
     ELSE mbs[k]]

(***************************************************************************)
(* markAsRead.                                                             *)
(***************************************************************************)
\* A guard that never finds the call in flight.
NeverProcessing(processing, id, read) == FALSE

\* The in-flight guard: currentProcessing.has(processingKey).
AlreadyProcessing(processing, id, read) == ProcessingKey(id, read) \in processing

MarkAsRead(emailId, read) ==
  /\ isAuthenticated
  /\ LET email == FindEmail(emails, emailId)
     IN  IF AlreadyProcessing(processingReadStatus, emailId, read)
         THEN /\ ev' = [Event("markAsRead", "deduplicated", "") EXCEPT
                          !.id = emailId, !.read = read]
              /\ UNCHANGED <<processingReadStatus, pending, mutations>>
         ELSE IF email = NoEmail \/ email.seen = read
         THEN UNCHANGED <<processingReadStatus, pending, mutations, ev>>
         ELSE /\ CanMutate
              /\ mutations' = mutations + 1
              /\ processingReadStatus' =
                   processingReadStatus \cup {ProcessingKey(emailId, read)}
              /\ pending' = Append(pending,
                   [Call("markAsRead") EXCEPT !.id = emailId, !.read = read])
              /\ ev' = Idle
  /\ UNCHANGED <<emails, mailboxes, selectedEmail, selectedMailbox, isLoading,
                 error, selectedEmailIds, deleteAction, isAuthenticated, loads, server, ext>>

\* newProcessingSet.delete(processingKey)
ClearProcessing(processing, id, read) == processing \ {ProcessingKey(id, read)}

SetSeen(es, emailId, read) ==
  [k \in Indices(es) |-> IF es[k].id = emailId THEN [es[k] EXCEPT !.seen = read] ELSE es[k]]

MarkAsReadDone(i, out) ==
  /\ pending[i].op = "markAsRead"
  /\ LET emailId == pending[i].id
         read == pending[i].read
         emailInState == FindEmail(emails, emailId)
         e == [Event("markAsRead", "done", out) EXCEPT !.id = emailId, !.read = read]
     IN  /\ processingReadStatus' = ClearProcessing(processingReadStatus, emailId, read)
         /\ IF ClientResolves("markAsRead", out)
            THEN /\ IF emailInState = NoEmail \/ emailInState.seen = read
                    THEN /\ ev' = [e EXCEPT !.resolved = TRUE]
                         /\ UNCHANGED <<emails, mailboxes, selectedEmail>>
                    ELSE /\ ev' = [e EXCEPT !.resolved = TRUE, !.patched = TRUE]
                         /\ mailboxes' = MarkAsReadMailboxes(mailboxes, emailInState, read)
                         /\ Bounded(mailboxes')
                         /\ emails' = SetSeen(emails, emailId, read)
                         /\ selectedEmail' =
                              IF selectedEmail # NoEmail /\ selectedEmail.id = emailId
                              THEN [selectedEmail EXCEPT !.seen = read]
                              ELSE selectedEmail
                 /\ UNCHANGED error
            ELSE /\ error' = ErrorMessage(out)
                 /\ ev' = [e EXCEPT !.thrown = TRUE]
                 /\ UNCHANGED <<emails, mailboxes, selectedEmail>>
  /\ pending' = RemoveAt(pending, i)
  /\ UNCHANGED <<selectedMailbox, isLoading, selectedEmailIds, deleteAction,
                 isAuthenticated, mutations, loads, server, ext>>

(***************************************************************************)
(* toggleStar.                                                             *)
(***************************************************************************)
ToggleStar(emailId) ==
  /\ isAuthenticated
  /\ LET email == FindEmail(emails, emailId)
     IN  IF email = NoEmail
         THEN UNCHANGED <<pending, mutations, ev>>
         ELSE /\ CanMutate
              /\ mutations' = mutations + 1
              /\ pending' = Append(pending,
                   [Call("toggleStar") EXCEPT !.id = emailId, !.read = ~email.flagged])
              /\ ev' = Idle
  /\ UNCHANGED <<storeVars, deleteAction, isAuthenticated, loads, server, ext>>

SetFlagged(es, emailId, starred) ==
  [k \in Indices(es) |->
     IF es[k].id = emailId THEN [es[k] EXCEPT !.flagged = starred] ELSE es[k]]

ToggleStarDone(i, out) ==
  /\ pending[i].op = "toggleStar"
  /\ LET emailId == pending[i].id
         starred == pending[i].read
         e == [Event("toggleStar", "done", out) EXCEPT !.id = emailId]
     IN  IF ClientResolves("toggleStar", out)
         THEN /\ emails' = SetFlagged(emails, emailId, starred)
              /\ selectedEmail' =
                   IF selectedEmail # NoEmail /\ selectedEmail.id = emailId
                   THEN [selectedEmail EXCEPT !.flagged = starred]
                   ELSE selectedEmail
              /\ ev' = [e EXCEPT !.resolved = TRUE, !.patched = TRUE]
              /\ UNCHANGED error
         ELSE /\ error' = ErrorMessage(out)
              /\ ev' = [e EXCEPT !.thrown = TRUE]
              /\ UNCHANGED <<emails, selectedEmail>>
  /\ pending' = RemoveAt(pending, i)
  /\ UNCHANGED <<mailboxes, selectedMailbox, isLoading, processingReadStatus,
                 selectedEmailIds, deleteAction, isAuthenticated, mutations, loads, server, ext>>

(***************************************************************************)
(* deleteEmail.                                                            *)
(***************************************************************************)
\* The account a request is scoped to when the selected mailbox is shared
\* ("" = undefined: the primary account).
SharedAccountOf(mbs, mailboxId) ==
  LET currentMailbox == FindMailbox(mbs, mailboxId)
  IN  IF currentMailbox.isShared THEN currentMailbox.accountId ELSE ""

IsTrashFor(mb, accountId) ==
  IF accountId # ""
  THEN mb.role = "trash" /\ mb.accountId = accountId
  ELSE mb.role = "trash" /\ ~mb.isShared

\* mailboxes.find(mb => ... role === 'trash' ...)
FindTrash(mbs, accountId) ==
  IF \E i \in Indices(mbs) : IsTrashFor(mbs[i], accountId)
  THEN mbs[CHOOSE i \in Indices(mbs) :
             /\ IsTrashFor(mbs[i], accountId)
             /\ \A j \in 1..(i - 1) : ~IsTrashFor(mbs[j], accountId)]
  ELSE NoMailbox

\* 'trash' when the email is moved to a trash mailbox, else 'permanent'.
DeleteMode(action, trashMailbox) ==
  IF action = "trash" /\ trashMailbox # NoMailbox THEN "trash" ELSE "permanent"

DeleteEmail(emailId) ==
  /\ isAuthenticated
  /\ LET email == FindEmail(emails, emailId)
         accountId == SharedAccountOf(mailboxes, selectedMailbox)
         trashMailbox == FindTrash(mailboxes, accountId)
         mode == DeleteMode(deleteAction, trashMailbox)
     IN  IF email = NoEmail
         THEN UNCHANGED <<pending, mutations, ev>>
         ELSE /\ CanMutate
              /\ mutations' = mutations + 1
              /\ pending' = Append(pending,
                   [Call("deleteEmail") EXCEPT
                      !.id = emailId, !.mode = mode, !.isUnread = ~email.seen,
                      !.mailboxIds = email.mailboxIds,
                      !.dest = IF mode = "trash" THEN trashMailbox.id ELSE ""])
              /\ ev' = Idle
  /\ UNCHANGED <<storeVars, deleteAction, isAuthenticated, loads, server, ext>>

\* The client method deleteEmail calls.
DeleteMethod(mode) == IF mode = "trash" THEN "moveToTrash" ELSE "deleteEmail"

DeleteEmailDone(i, out) ==
  /\ pending[i].op = "deleteEmail"
  /\ LET c == pending[i]
         e == [Event("deleteEmail", "done", out) EXCEPT
                 !.id = c.id, !.mode = c.mode, !.dest = c.dest,
                 !.isUnread = c.isUnread, !.mailboxIds = c.mailboxIds]
     IN  IF ClientResolves(DeleteMethod(c.mode), out)
         THEN /\ mailboxes' =
                   IF c.mode = "trash"
                   THEN TrashMailboxes(mailboxes, c.mailboxIds, c.isUnread, c.dest)
                   ELSE PermanentMailboxes(mailboxes, c.mailboxIds, c.isUnread)
              /\ Bounded(mailboxes')
              /\ emails' = FilterSeq(emails, PageIds(emails) \ {c.id})
              /\ selectedEmail' =
                   IF selectedEmail.id = c.id THEN NoEmail ELSE selectedEmail
              /\ ev' = [e EXCEPT !.resolved = TRUE, !.patched = TRUE]
              /\ UNCHANGED error
         ELSE /\ error' = ErrorMessage(out)
              /\ ev' = [e EXCEPT !.thrown = TRUE]
              /\ UNCHANGED <<emails, mailboxes, selectedEmail>>
  /\ pending' = RemoveAt(pending, i)
  /\ UNCHANGED <<selectedMailbox, isLoading, processingReadStatus,
                 selectedEmailIds, deleteAction, isAuthenticated, mutations, loads, server, ext>>

(***************************************************************************)
(* moveToMailbox.                                                          *)
(***************************************************************************)
MoveToMailbox(emailId, destinationMailboxId) ==
  /\ isAuthenticated
  /\ LET email == FindEmail(emails, emailId)
     IN  IF email = NoEmail
         THEN UNCHANGED <<pending, mutations, ev>>
         ELSE /\ CanMutate
              /\ mutations' = mutations + 1
              /\ pending' = Append(pending,
                   [Call("moveToMailbox") EXCEPT
                      !.id = emailId, !.dest = destinationMailboxId,
                      !.isUnread = ~email.seen, !.mailboxIds = email.mailboxIds])
              /\ ev' = Idle
  /\ UNCHANGED <<storeVars, deleteAction, isAuthenticated, loads, server, ext>>

SetMailboxIds(es, emailId, destinationMailboxId) ==
  [k \in Indices(es) |->
     IF es[k].id = emailId
     THEN [es[k] EXCEPT !.mailboxIds = {destinationMailboxId}]
     ELSE es[k]]

MoveToMailboxDone(i, out) ==
  /\ pending[i].op = "moveToMailbox"
  /\ LET c == pending[i]
         e == [Event("moveToMailbox", "done", out) EXCEPT
                 !.id = c.id, !.dest = c.dest,
                 !.isUnread = c.isUnread, !.mailboxIds = c.mailboxIds]
     IN  IF ClientResolves("moveEmail", out)
         THEN /\ mailboxes' = MoveMailboxes(mailboxes, c.mailboxIds, c.isUnread, c.dest)
              /\ Bounded(mailboxes')
              /\ emails' = SetMailboxIds(emails, c.id, c.dest)
              /\ selectedEmail' =
                   IF selectedEmail # NoEmail /\ selectedEmail.id = c.id
                   THEN [selectedEmail EXCEPT !.mailboxIds = {c.dest}]
                   ELSE selectedEmail
              /\ ev' = [e EXCEPT !.resolved = TRUE, !.patched = TRUE]
              /\ UNCHANGED error
         ELSE /\ error' = ErrorMessage(out)
              /\ ev' = [e EXCEPT !.thrown = TRUE]
              /\ UNCHANGED <<emails, mailboxes, selectedEmail>>
  /\ pending' = RemoveAt(pending, i)
  /\ UNCHANGED <<selectedMailbox, isLoading, processingReadStatus,
                 selectedEmailIds, deleteAction, isAuthenticated, mutations, loads, server, ext>>

(***************************************************************************)
(* sendEmail.                                                              *)
(***************************************************************************)
SendEmail ==
  /\ CanCall
  /\ CanMutate
  /\ mutations' = mutations + 1
  /\ isLoading' = TRUE
  /\ error' = NULL
  /\ pending' = Append(pending, Call("sendEmail"))
  /\ ev' = Idle
  /\ UNCHANGED <<emails, mailboxes, selectedEmail, selectedMailbox,
                 processingReadStatus, selectedEmailIds, deleteAction,
                 isAuthenticated, loads, server, ext>>

\* On success the store awaits fetchEmails(client): its synchronous prefix
\* runs in the same step and its request takes the place of this one.
SendEmailDone(i, out) ==
  /\ pending[i].op = "sendEmail"
  /\ IF ClientResolves("sendEmail", out)
     THEN /\ isLoading' = TRUE
          /\ error' = NULL
          /\ pending' = Append(RemoveAt(pending, i), FetchEmailsCall(selectedMailbox))
          /\ ev' = [Event("sendEmail", "done", out) EXCEPT !.resolved = TRUE]
     ELSE /\ isLoading' = FALSE
          /\ error' = ErrorMessage(out)
          /\ pending' = RemoveAt(pending, i)
          /\ ev' = [Event("sendEmail", "done", out) EXCEPT !.thrown = TRUE]
  /\ UNCHANGED <<emails, mailboxes, selectedEmail, selectedMailbox,
                 processingReadStatus, selectedEmailIds, deleteAction,
                 isAuthenticated, mutations, loads, server, ext>>

(***************************************************************************)
(* Batch operations.  emails and mailboxes are destructured from get()     *)
(* before the await and used after it.                                     *)
(***************************************************************************)
\* The smallest id of a selection, as a set.
FirstOf(ids) == IF ids = {} THEN {} ELSE {CHOOSE x \in ids : \A y \in ids : x <= y}

\* A batch call that carries the first selected id only.
BatchCallFirstOnly(op) ==
  [Call(op) EXCEPT !.ids = FirstOf(selectedEmailIds), !.emails = emails,
                   !.mailboxes = mailboxes]

BatchCall(op) ==
  [Call(op) EXCEPT !.ids = selectedEmailIds, !.emails = emails,
                   !.mailboxes = mailboxes]

\* The indices of the affected emails that are members of the mailbox.
AffectedIn(es, ids, mailboxId) ==
  {k \in Indices(es) : es[k].id \in ids /\ mailboxId \in es[k].mailboxIds}

\* batchMarkAsRead: mailboxes.map(...) with deltaUnread summed per mailbox.
BatchReadMailboxes(mbs, es, ids, read) ==
  [k \in Indices(mbs) |->
     LET changing == {j \in AffectedIn(es, ids, mbs[k].id) : es[j].seen # read}
         deltaUnread == IF read THEN -Cardinality(changing) ELSE Cardinality(changing)
     IN  [mbs[k] EXCEPT !.unreadEmails = Max0(@ + deltaUnread),
                        !.unreadThreads = Max0(@ + deltaUnread)]]

\* batchDelete: mailboxes.map(...) with the deltas summed per mailbox.
BatchDeleteMailboxes(mbs, es, ids) ==
  [k \in Indices(mbs) |->
     LET deleted == AffectedIn(es, ids, mbs[k].id)
         deltaTotalEmails == -Cardinality(deleted)
         deltaUnreadEmails == -Cardinality({j \in deleted : ~es[j].seen})
     IN  [mbs[k] EXCEPT !.totalEmails = Max0(@ + deltaTotalEmails),
                        !.unreadEmails = Max0(@ + deltaUnreadEmails),
                        !.totalThreads = Max0(@ + deltaTotalEmails),
                        !.unreadThreads = Max0(@ + deltaUnreadEmails)]]

SetSeenAll(es, ids, read) ==
  [k \in Indices(es) |-> IF es[k].id \in ids THEN [es[k] EXCEPT !.seen = read] ELSE es[k]]

\* The part the three batch operations share before the await.
BatchStart(call) ==
  /\ isAuthenticated
  /\ IF selectedEmailIds = {}
     THEN UNCHANGED <<isLoading, error, pending, mutations, ev>>
     ELSE /\ CanMutate
          /\ mutations' = mutations + 1
          /\ isLoading' = TRUE
          /\ error' = NULL
          /\ pending' = Append(pending, call)
          /\ ev' = Idle
  /\ UNCHANGED <<emails, mailboxes, selectedEmail, selectedMailbox,
                 processingReadStatus, selectedEmailIds, deleteAction,
                 isAuthenticated, loads, server, ext>>

\* The catch block the three batch operations share.
BatchFailed(i, e) ==
  /\ error' = ErrorMessage(e.out)
  /\ isLoading' = FALSE
  /\ pending' = RemoveAt(pending, i)
  /\ ev' = e
  /\ UNCHANGED <<emails, mailboxes, selectedEmail, selectedEmailIds>>

BatchMarkAsRead(read) ==
  BatchStart([BatchCall("batchMarkAsRead") EXCEPT !.read = read])

BatchMarkAsReadDone(i, out) ==
  /\ pending[i].op = "batchMarkAsRead"
  /\ LET c == pending[i]
         e == [Event("batchMarkAsRead", "done", out) EXCEPT !.read = c.read]
     IN  IF ClientResolves("batchMarkAsRead", out)
         THEN /\ emails' = SetSeenAll(c.emails, c.ids, c.read)
              /\ mailboxes' = BatchReadMailboxes(c.mailboxes, c.emails, c.ids, c.read)
              /\ Bounded(mailboxes')
              /\ selectedEmailIds' = {}
              /\ isLoading' = FALSE
              /\ pending' = RemoveAt(pending, i)
              /\ ev' = [e EXCEPT !.resolved = TRUE, !.patched = TRUE]
              /\ UNCHANGED <<selectedEmail, error>>
         ELSE BatchFailed(i, e)
  /\ UNCHANGED <<selectedMailbox, processingReadStatus, deleteAction,
                 isAuthenticated, mutations, loads, server, ext>>

BatchDelete == BatchStart(BatchCall("batchDelete"))

BatchDeleteDone(i, out) ==
  /\ pending[i].op = "batchDelete"
  /\ LET c == pending[i]
         e == Event("batchDelete", "done", out)
     IN  IF ClientResolves("batchDeleteEmails", out)
         THEN /\ emails' = FilterSeq(c.emails, PageIds(c.emails) \ c.ids)
              /\ mailboxes' = BatchDeleteMailboxes(c.mailboxes, c.emails, c.ids)
              /\ selectedEmailIds' = {}
              /\ selectedEmail' = NoEmail
              /\ isLoading' = FALSE
              /\ pending' = RemoveAt(pending, i)
              /\ ev' = [e EXCEPT !.resolved = TRUE, !.patched = TRUE]
              /\ UNCHANGED error
         ELSE BatchFailed(i, e)
  /\ UNCHANGED <<selectedMailbox, processingReadStatus, deleteAction,
                 isAuthenticated, mutations, loads, server, ext>>

\* (batchMoveToMailbox destructures selectedEmailIds and emails only; the
\* mailboxes of the call are kept in the record for reference.)
BatchMoveToMailbox(toMailboxId) ==
  BatchStart([BatchCall("batchMoveToMailbox") EXCEPT !.dest = toMailboxId])

\* On success, after the local removal, the store awaits
\* fetchEmails(client, get().selectedMailbox): its synchronous prefix runs
\* in the same step and its request takes the place of this one.
BatchMoveToMailboxDone(i, out) ==
  /\ pending[i].op = "batchMoveToMailbox"
  /\ LET c == pending[i]
         e == [Event("batchMoveToMailbox", "done", out) EXCEPT !.dest = c.dest]
     IN  IF ClientResolves("batchMoveEmails", out)
         THEN /\ emails' = FilterSeq(c.emails, PageIds(c.emails) \ c.ids)
              /\ selectedEmailIds' = {}
              /\ isLoading' = TRUE
              /\ error' = NULL
              /\ pending' = Append(RemoveAt(pending, i), FetchEmailsCall(selectedMailbox))
              /\ ev' = [e EXCEPT !.resolved = TRUE, !.patched = TRUE]
              /\ UNCHANGED <<mailboxes, selectedEmail>>
         ELSE BatchFailed(i, e)
  /\ UNCHANGED <<selectedMailbox, processingReadStatus, deleteAction,
                 isAuthenticated, mutations, loads, server, ext>>

(***************************************************************************)
(* Next-state relations.                                                   *)
(***************************************************************************)
Loading ==
  \/ Login
  \/ FetchMailboxes
  \/ \E i \in Indices(pending), out \in Settled : FetchMailboxesDone(i, out)
  \/ FetchEmails
  \/ \E i \in Indices(pending), out \in Settled : FetchEmailsDone(i, out)

Mutations ==
  \/ \E id \in EmailIds, read \in BOOLEAN : MarkAsRead(id, read)
  \/ \E i \in Indices(pending), out \in Outcomes : MarkAsReadDone(i, out)
  \/ \E id \in EmailIds : ToggleStar(id)
  \/ \E i \in Indices(pending), out \in Outcomes : ToggleStarDone(i, out)
  \/ \E id \in EmailIds : DeleteEmail(id)
  \/ \E i \in Indices(pending), out \in Outcomes : DeleteEmailDone(i, out)
  \/ \E id \in EmailIds, d \in MailboxIds : MoveToMailbox(id, d)
  \/ \E i \in Indices(pending), out \in Outcomes : MoveToMailboxDone(i, out)
  \/ SendEmail
  \/ \E i \in Indices(pending), out \in Outcomes : SendEmailDone(i, out)

Selecting ==
  \/ \E id \in PageIds(emails) : ToggleEmailSelection(id)
  \/ SelectAllEmails
  \/ ClearSelection

BatchMutations ==
  \/ \E read \in BOOLEAN : BatchMarkAsRead(read)
  \/ \E i \in Indices(pending), out \in Settled : BatchMarkAsReadDone(i, out)
  \/ BatchDelete
  \/ \E i \in Indices(pending), out \in Settled : BatchDeleteDone(i, out)
  \/ \E d \in MailboxIds : BatchMoveToMailbox(d)
  \/ \E i \in Indices(pending), out \in Settled : BatchMoveToMailboxDone(i, out)

Viewing ==
  \/ \E i \in Indices(emails) : SelectEmail(emails[i])
  \/ SelectEmail(NoEmail)

Navigating ==
  \/ Logout
  \/ \E m \in MailboxIds : SelectMailbox(m)

Next ==
  \/ Loading
  \/ Mutations
  \/ Viewing

Spec == Init /\ [][Next]_vars

NextBatch ==
  \/ Loading
  \/ Selecting
  \/ BatchMutations
  \/ \E id \in EmailIds, read \in BOOLEAN : MarkAsRead(id, read)
  \/ \E i \in Indices(pending), out \in Settled : MarkAsReadDone(i, out)
  \/ \E id \in EmailIds : DeleteEmail(id)
  \/ \E i \in Indices(pending), out \in Settled : DeleteEmailDone(i, out)
  \/ \E id \in EmailIds, d \in MailboxIds : MoveToMailbox(id, d)
  \/ \E i \in Indices(pending), out \in Settled : MoveToMailboxDone(i, out)

SpecBatch == Init /\ [][NextBatch]_vars

NextNav ==
  \/ Loading
  \/ Selecting
  \/ Navigating

SpecNav == Init /\ [][NextNav]_vars

(***************************************************************************)
(* Properties.                                                             *)
(***************************************************************************)
SingleOps == {"markAsRead", "toggleStar", "deleteEmail", "moveToMailbox"}
BatchOps == {"batchMarkAsRead", "batchDelete", "batchMoveToMailbox"}

\* The step is the completion of a call of one of the operations.
Completes(ops) == ev'.phase = "done" /\ ev'.op \in ops

\* The step is a completion whose protocol call resolved.
Succeeds(ops) == Completes(ops) /\ ev'.resolved

Counters(mb) ==
  <<mb.totalEmails, mb.unreadEmails, mb.totalThreads, mb.unreadThreads>>

\* C1: in every reachable state, whatever the interleaving of markAsRead,
\* deleteEmail, moveToMailbox, batchMarkAsRead and batchDelete, each of the
\* four counters of every mailbox is at least 0.
CountersNeverNegative ==
  \A k \in Indices(mailboxes) :
     /\ mailboxes[k].totalEmails >= 0
     /\ mailboxes[k].unreadEmails >= 0
     /\ mailboxes[k].totalThreads >= 0
     /\ mailboxes[k].unreadThreads >= 0

\* A deletion has resolved and left the inbox, which the server reported
\* as holding mail, with no email and no unread email.
CountersNeverNegativeWitness ==
  /\ ev.op \in {"deleteEmail", "batchDelete"}
  /\ ev.phase = "done"
  /\ ev.patched
  /\ Len(server.listing) > 0
  /\ FindMailbox(mailboxes, "inbox") # NoMailbox
  /\ FindMailbox(mailboxes, "inbox").totalEmails = 0
  /\ FindMailbox(mailboxes, "inbox").unreadEmails = 0

InFlight(id, read) ==
  {i \in Indices(pending) :
     pending[i].op = "markAsRead" /\ pending[i].id = id /\ pending[i].read = read}

\* C2: a markAsRead(id, s) invoked while a markAsRead(id, s) is in flight
\* sends nothing, so at most one request per (id, s) is in flight; when the
\* request resolves the email's $seen is s and the unread counters of its
\* mailboxes have moved by one step, once.
MarkAsReadSentOnce ==
  /\ [](\A id \in EmailIds, read \in BOOLEAN : Cardinality(InFlight(id, read)) <= 1)
  /\ [][(ev'.op = "markAsRead" /\ ev'.phase = "deduplicated")
          => /\ pending' = pending
             /\ storeVars' = storeVars]_vars
  /\ [][Succeeds({"markAsRead"})
          => LET before == FindEmail(emails, ev'.id)
                 step == IF before = NoEmail \/ before.seen = ev'.read THEN 0
                         ELSE IF ev'.read THEN -1 ELSE 1
             IN  /\ before # NoEmail => FindEmail(emails', ev'.id).seen = ev'.read
                 /\ Len(mailboxes') = Len(mailboxes)
                 /\ \A k \in Indices(mailboxes) :
                       IF mailboxes[k].id \in before.mailboxIds
                       THEN mailboxes'[k].unreadEmails =
                              Max0(mailboxes[k].unreadEmails + step)
                       ELSE mailboxes'[k] = mailboxes[k]]_vars

\* A second markAsRead for the same email and state has just been turned
\* away while the first is still in flight.
MarkAsReadSentOnceWitness ==
  /\ ev.op = "markAsRead"
  /\ ev.phase = "deduplicated"
  /\ InFlight(ev.id, ev.read) # {}
  /\ ProcessingKey(ev.id, ev.read) \in processingReadStatus

\* C3: when markAsRead(id, read) resolves for an email of the page whose
\* $seen differs from read, every mailbox the email is a member of at that
\* moment has unreadEmails and unreadThreads moved by -1 (read) or +1
\* (unread), clamped at 0, and its totals untouched; every other mailbox is
\* untouched; the email, and selectedEmail when it is that email, has
\* $seen = read.
MarkAsReadRebalances ==
  [][(Succeeds({"markAsRead"}) /\ FindEmail(emails, ev'.id) # NoEmail
        /\ FindEmail(emails, ev'.id).seen # ev'.read)
      => LET before == FindEmail(emails, ev'.id)
             delta == IF ev'.read THEN -1 ELSE 1
         IN  /\ Len(mailboxes') = Len(mailboxes)
             /\ \A k \in Indices(mailboxes) :
                   IF mailboxes[k].id \in before.mailboxIds
                   THEN /\ mailboxes'[k].unreadEmails =
                             Max0(mailboxes[k].unreadEmails + delta)
                        /\ mailboxes'[k].unreadThreads =
                             Max0(mailboxes[k].unreadThreads + delta)
                        /\ mailboxes'[k].totalEmails = mailboxes[k].totalEmails
                        /\ mailboxes'[k].totalThreads = mailboxes[k].totalThreads
                   ELSE mailboxes'[k] = mailboxes[k]
             /\ FindEmail(emails', ev'.id).seen = ev'.read
             /\ PageIds(emails') = PageIds(emails)
             /\ (selectedEmail # NoEmail /\ selectedEmail.id = ev'.id)
                  => selectedEmail'.seen = ev'.read]_vars

\* An unread email of the inbox has been marked read: the inbox keeps its
\* two emails and has no unread email left, the archive is as the server
\* reported it.
MarkAsReadRebalancesWitness ==
  /\ ev.op = "markAsRead"
  /\ ev.phase = "done"
  /\ ev.patched
  /\ ev.read
  /\ FindEmail(emails, ev.id).seen
  /\ FindEmail(emails, ev.id).mailboxIds = {"inbox"}
  /\ Counters(FindMailbox(mailboxes, "inbox")) = <<2, 0, 2, 0>>
  /\ Counters(FindMailbox(mailboxes, "archive")) = <<1, 0, 1, 0>>

\* The counters the claims of spec.md expect of a mailbox whose membership
\* of the email changes by delta (-1 left, +1 entered, 0 unchanged).
Adjusted(mb, delta, isUnread) ==
  <<Max0(mb.totalEmails + delta),
    IF isUnread THEN Max0(mb.unreadEmails + delta) ELSE mb.unreadEmails,
    Max0(mb.totalThreads + delta),
    IF isUnread THEN Max0(mb.unreadThreads + delta) ELSE mb.unreadThreads>>

\* C4: when moveToMailbox(e, d) resolves, every mailbox has its totals
\* (and, for an unread email, its unread counters) changed by -1 if e left
\* it, +1 if e entered it and 0 if its membership of e did not change (a
\* destination e was already in included), e being taken as the call
\* found it; afterwards the membership of e is exactly {d}.
MoveRebalancesByTransition ==
  [][Succeeds({"moveToMailbox"})
      => /\ Len(mailboxes') = Len(mailboxes)
         /\ \A k \in Indices(mailboxes) :
               LET was == mailboxes[k].id \in ev'.mailboxIds
                   is == mailboxes[k].id = ev'.dest
                   delta == (IF is THEN 1 ELSE 0) - (IF was THEN 1 ELSE 0)
               IN  Counters(mailboxes'[k]) = Adjusted(mailboxes[k], delta, ev'.isUnread)
         /\ FindEmail(emails, ev'.id) # NoEmail
              => FindEmail(emails', ev'.id).mailboxIds = {ev'.dest}]_vars

\* C5: when deleteEmail resolves in 'trash' mode, every mailbox the email
\* was leaving is decremented, the trash mailbox is incremented (or, for
\* an email that was already in it, at least not decremented), the others
\* are untouched, the email is off the page and selectedEmail is cleared
\* if it was that email; in 'permanent' mode the mailboxes of the email
\* are decremented and nothing is incremented.
DeleteRebalances ==
  [][Succeeds({"deleteEmail"})
      => /\ Len(mailboxes') = Len(mailboxes)
         /\ \A k \in Indices(mailboxes) :
               LET was == mailboxes[k].id \in ev'.mailboxIds
                   trash == ev'.mode = "trash" /\ mailboxes[k].id = ev'.dest
                   after == Counters(mailboxes'[k])
               IN  IF trash /\ was
                   THEN after \in {Counters(mailboxes[k]),
                                   Adjusted(mailboxes[k], 1, ev'.isUnread)}
                   ELSE IF trash
                   THEN after = Adjusted(mailboxes[k], 1, ev'.isUnread)
                   ELSE IF was
                   THEN after = Adjusted(mailboxes[k], -1, ev'.isUnread)
                   ELSE after = Counters(mailboxes[k])
         /\ ev'.id \notin PageIds(emails')
         /\ (selectedEmail # NoEmail /\ selectedEmail.id = ev'.id)
              => selectedEmail' = NoEmail]_vars

\* The step is the start of a call of one of the operations.
Starts(ops) ==
  /\ Len(pending') = Len(pending) + 1
  /\ pending'[Len(pending')].op \in ops

\* C6: when the protocol call of markAsRead, toggleStar, deleteEmail or
\* moveToMailbox fails, emails, mailboxes and selectedEmail are what they
\* were before the operation acted (neither its start nor its failure
\* changes them), error is set, the error is thrown to the caller, and
\* the markAsRead guard key is gone.
FailureLeavesStore ==
  [][/\ Starts(SingleOps)
          => /\ emails' = emails
             /\ mailboxes' = mailboxes
             /\ selectedEmail' = selectedEmail
     /\ (Completes(SingleOps) /\ ev'.out = "failed")
          => /\ emails' = emails
             /\ mailboxes' = mailboxes
             /\ selectedEmail' = selectedEmail
             /\ error' # NULL
             /\ ev'.thrown
             /\ ev'.op = "markAsRead"
                  => ProcessingKey(ev'.id, ev'.read) \notin processingReadStatus']_vars

\* A markAsRead has failed: the email is still on the page in its old
\* state, the error is recorded and thrown, the guard key is gone.
FailureLeavesStoreWitness ==
  /\ ev.op = "markAsRead"
  /\ ev.phase = "done"
  /\ ev.out = "failed"
  /\ ev.thrown
  /\ error # NULL
  /\ FindEmail(emails, ev.id) # NoEmail
  /\ FindEmail(emails, ev.id).seen # ev.read
  /\ ProcessingKey(ev.id, ev.read) \notin processingReadStatus

\* C7: a mutation the server answers with notCreated / notUpdated /
\* notDestroyed surfaces as a failure: the store applies no local patch
\* for it and the caller gets the error.
RejectionNeverPatched ==
  [][(ev'.phase = "done" /\ ev'.out = "rejected")
      => /\ ~ev'.patched
         /\ ev'.thrown
         /\ emails' = emails
         /\ mailboxes' = mailboxes
         /\ selectedEmail' = selectedEmail]_vars

\* The state one resolved single-item operation leaves, as the patches of
\* markAsRead, deleteEmail ('permanent') and moveToMailbox compute it.
ApplySingle(op, st, id, read, dest) ==
  LET email == FindEmail(st.emails, id)
  IN  IF email = NoEmail THEN st
      ELSE IF op = "batchMarkAsRead"
      THEN IF email.seen = read THEN st
           ELSE [emails |-> SetSeen(st.emails, id, read),
                 mailboxes |-> MarkAsReadMailboxes(st.mailboxes, email, read)]
      ELSE IF op = "batchDelete"
      THEN [emails |-> FilterSeq(st.emails, PageIds(st.emails) \ {id}),
            mailboxes |-> PermanentMailboxes(st.mailboxes, email.mailboxIds, ~email.seen)]
      ELSE [emails |-> SetMailboxIds(st.emails, id, dest),
            mailboxes |-> MoveMailboxes(st.mailboxes, email.mailboxIds, ~email.seen, dest)]

\* The single-item operation applied to the ids one after the other.
RECURSIVE Sequentially(_, _, _, _, _)
Sequentially(op, st, ids, read, dest) ==
  IF ids = {} THEN st
  ELSE LET id == CHOOSE x \in ids : \A y \in ids : x <= y
       IN  Sequentially(op, ApplySingle(op, st, id, read, dest), ids \ {id}, read, dest)

\* The step settles the i-th request in flight.
Settles(i) ==
  \/ pending' = RemoveAt(pending, i)
  \/ pending' = Append(RemoveAt(pending, i), FetchEmailsCall(selectedMailbox))

CountersOf(mbs) == [k \in Indices(mbs) |-> Counters(mbs[k])]

\* C8: when a batch operation over a set of ids resolves, the counters of
\* every mailbox equal those that applying the matching single-item
\* operation to each id in turn, from the state the batch started in,
\* would leave.
BatchEqualsSequential ==
  [][\A i \in Indices(pending) :
       (Succeeds(BatchOps) /\ pending[i].op = ev'.op /\ Settles(i))
         => CountersOf(mailboxes') =
              CountersOf(Sequentially(pending[i].op,
                                      [emails |-> pending[i].emails,
                                       mailboxes |-> pending[i].mailboxes],
                                      pending[i].ids, pending[i].read,
                                      pending[i].dest).mailboxes)]_vars

\* C8, for batchMarkAsRead and batchDelete only.
BatchReadDeleteEqualSequential ==
  [][\A i \in Indices(pending) :
       (Succeeds({"batchMarkAsRead", "batchDelete"}) /\ pending[i].op = ev'.op
          /\ Settles(i))
         => CountersOf(mailboxes') =
              CountersOf(Sequentially(pending[i].op,
                                      [emails |-> pending[i].emails,
                                       mailboxes |-> pending[i].mailboxes],
                                      pending[i].ids, pending[i].read,
                                      pending[i].dest).mailboxes)]_vars

\* C9 as spec.md states it: whatever the outcome of a batch operation, the
\* selection is empty once it has completed.
BatchAlwaysClearsSelection ==
  [][Completes(BatchOps) => selectedEmailIds' = {}]_vars

\* C9: a batch operation invoked on a non-empty selection sends exactly one
\* request, which covers every selected id; when the request resolves the
\* selection is empty, when it fails the selection is what it was; no
\* completion sends a further mutation request.
BatchSettlesSelection ==
  [][/\ Starts(BatchOps)
          => /\ selectedEmailIds # {}
             /\ SubSeq(pending', 1, Len(pending)) = pending
             /\ pending'[Len(pending')].ids = selectedEmailIds
             /\ selectedEmailIds' = selectedEmailIds
     /\ Succeeds(BatchOps) => selectedEmailIds' = {}
     /\ (Completes(BatchOps) /\ ~ev'.resolved)
          => selectedEmailIds' = selectedEmailIds
     /\ Completes(BatchOps)
          => \E i \in Indices(pending) :
                /\ pending[i].op = ev'.op
                /\ Settles(i)
                /\ pending[i].ids # {}]_vars

\* A batchDelete over both emails of the page has resolved: the page and
\* the selection are empty and nothing is in flight.
BatchSettlesSelectionWitness ==
  /\ ev.op = "batchDelete"
  /\ ev.phase = "done"
  /\ ev.resolved
  /\ Len(server.listing) = 2
  /\ emails = <<>>
  /\ selectedEmailIds = {}
  /\ pending = <<>>

\* C10: every step that changes selectedMailbox leaves the selection empty.
MailboxChangeClearsSelection ==
  [][selectedMailbox' # selectedMailbox => selectedEmailIds' = {}]_vars

(***************************************************************************)
(* getEmails as a function of its arguments and of the mailbox queried.    *)
(* Init draws a server holding 0..MaxQueryEmails emails, whether it        *)
(* reports totals, and the arguments; the one action makes the call.       *)
(***************************************************************************)
\* The emails of the server a query runs against.
MaxQueryEmails == 5
\* The largest page asked for.
MaxLimit == 3

QueryWorld(size) ==
  [listing |-> [k \in 1..size |-> ServerEmail(k)], hasTrash |-> FALSE,
   hidden |-> 0]

GetEmailsArgs ==
  [fn : {"getEmails"}, mailboxId : {"", "inbox", "archive"},
   limit : 1..MaxLimit, position : 0..MaxQueryEmails, out : Outcomes]

InitGetEmails ==
  /\ \E size \in 0..MaxQueryEmails : server = QueryWorld(size)
  /\ reportsTotal \in BOOLEAN
  /\ args \in GetEmailsArgs
  /\ result = <<>>
  /\ deleteAction = "trash"
  /\ isAuthenticated = TRUE
  /\ StoreAsCreated
  /\ PageAsCreated
  /\ emailsPerPage = DefaultEmailsPerPage
  /\ ClientAsCreated
  /\ SessionAsCreated
  /\ UiAsCreated

CallGetEmails ==
  /\ result = <<>>
  /\ result' = GetEmails(server, reportsTotal, args.mailboxId, args.limit,
                         args.position, args.out)
  /\ UNCHANGED <<storeVars, deleteAction, isAuthenticated, pending, ev,
                 mutations, loads, server, hasMoreEmails, totalEmails,
                 pageRest, env, args, clientVars, authVars, uiVars>>

NextGetEmails == CallGetEmails

SpecGetEmails == InitGetEmails /\ [][NextGetEmails]_vars

\* The emails of the queried mailbox the server holds.
Held == Len(ServerPage(server, args.mailboxId))

\* The emails left from the asked position on.
LeftFrom(position) == IF position < Held THEN Held - position ELSE 0

\* C12: getEmails answers hasMore = (position + n < T) when the server
\* reports a total T > 0 and hasMore = (n = limit) otherwise, n being the
\* number of emails returned (the emails left from the position on, at most
\* limit); of a mailbox of 5 emails and limit 2 it returns 2 emails and
\* hasMore at position 0, and 1 email and no more at position 4; when the
\* request fails it returns no email, hasMore = false and total 0.
GetEmailsHasMore ==
  result # <<>> =>
    LET n == Len(result.emails)
        T == IF reportsTotal THEN Held ELSE 0
    IN  /\ args.out = "ok" =>
             /\ n = IF LeftFrom(args.position) < args.limit
                    THEN LeftFrom(args.position) ELSE args.limit
             /\ result.total = T
             /\ T > 0 => (result.hasMore <=> args.position + n < T)
             /\ T = 0 => (result.hasMore <=> n = args.limit)
             /\ (Held = 5 /\ args.limit = 2 /\ args.position = 0)
                  => (n = 2 /\ result.hasMore)
             /\ (Held = 5 /\ args.limit = 2 /\ args.position = 4)
                  => (n = 1 /\ ~result.hasMore)
        /\ args.out # "ok" =>
             (result.emails = <<>> /\ ~result.hasMore /\ result.total = 0)

\* The last email of a mailbox of 5 has been asked for, two at a time, of a
\* server that reports no total.
GetEmailsHasMoreWitness ==
  /\ result # <<>>
  /\ args.out = "ok"
  /\ Held = 5 /\ args.limit = 2 /\ args.position = 4
  /\ ~reportsTotal
  /\ Len(result.emails) = 1
  /\ ~result.hasMore

(***************************************************************************)
(* Pagination and push reconciliation: fetchEmails, loadMoreEmails and     *)
(* handleStateChange against a server whose mailbox changes under the      *)
(* store (emails arrive, newest first, and are destroyed by other clients).*)
(* The run starts where the first load of the page starts: logged in, the  *)
(* mailbox tree fetched (inbox selected) or its fetch failed (no mailbox   *)
(* selected), an earlier error shown or not, and some page size chosen in  *)
(* the settings.                                                           *)
(***************************************************************************)
\* The largest page size of the settings.
MaxPerPage == 2
\* The change descriptors handled in a run.
MaxPushes == 1

\* The emails that exist during a run: one more than the server first holds.
SyncEmailIds == 1..(NumEmails + 1)

\* The accounts a change descriptor can have an entry for.
ChangeAccounts == {PrimaryAccount, "other"}

\* A change descriptor {changed: {[account]: {Email?, Mailbox?}}}, the
\* tokens left out.
Changes == [account : ChangeAccounts, types : SUBSET {"Email", "Mailbox"}]

InitSync ==
  /\ server \in {w \in ServerWorlds : ~w.hasTrash /\ w.hidden = 0}
  /\ deleteAction = "trash"
  /\ isAuthenticated = TRUE
  /\ emails = <<>>
  /\ \/ mailboxes = ServerMailboxes(server) /\ selectedMailbox = "inbox"
     \/ mailboxes = <<>> /\ selectedMailbox = ""
  /\ selectedEmail = NoEmail
  /\ isLoading = FALSE
  /\ error \in {NULL, ErrorMessage("failed")}
  /\ processingReadStatus = {}
  /\ selectedEmailIds = {}
  /\ pending = <<>>
  /\ ev = Idle
  /\ mutations = 0
  /\ loads = 0
  /\ PageAsCreated
  /\ emailsPerPage \in 1..MaxPerPage
  /\ reportsTotal = FALSE
  /\ NoFunction
  /\ ClientAsCreated
  /\ SessionAsCreated
  /\ UiAsCreated

\* An email arrives: it is the newest of the listing, and its id is one
\* the server has not given to a listed email or to an older one.
ServerArrival(id) ==
  /\ \A k \in PageIds(server.listing) : k < id
  /\ server' = [server EXCEPT !.listing = <<ServerEmail(id)>> \o @]
  /\ ev' = Idle
  /\ UNCHANGED <<storeVars, deleteAction, isAuthenticated, pending, mutations,
                 loads, ext>>

\* Another client destroys an email.
ServerRemoval(id) ==
  /\ id \in PageIds(server.listing)
  /\ server' = [server EXCEPT !.listing = FilterSeq(@, PageIds(@) \ {id})]
  /\ ev' = Idle
  /\ UNCHANGED <<storeVars, deleteAction, isAuthenticated, pending, mutations,
                 loads, ext>>

\* const jmapMailboxId = mailbox?.originalId || selectedMailbox
JmapMailboxId(mbs, mailboxId) ==
  LET mailbox == FindMailbox(mbs, mailboxId)
  IN  IF mailbox.originalId # "" THEN mailbox.originalId ELSE mailboxId

\* emails[0]?.id
FirstId(es) == IF es = <<>> THEN NoId ELSE es[1].id

\* loadMoreEmails up to the await.  It returns at once, changing nothing,
\* while a load-more is in flight or when the last page said there is no
\* more; the request carries position = emails.length of the page read at
\* the call.
LoadMoreEmails ==
  /\ CanCall
  /\ loads < MaxLoads
  /\ ~isLoadingMore /\ hasMoreEmails
  /\ loads' = loads + 1
  /\ isLoadingMore' = TRUE
  /\ error' = NULL
  /\ pending' = Append(pending,
       [Call("loadMoreEmails") EXCEPT
          !.dest = JmapMailboxId(mailboxes, selectedMailbox),
          !.emails = emails])
  /\ ev' = Idle
  /\ UNCHANGED <<emails, mailboxes, selectedEmail, selectedMailbox, isLoading,
                 processingReadStatus, selectedEmailIds, deleteAction,
                 isAuthenticated, mutations, server, hasMoreEmails,
                 totalEmails, newEmailNotification, lastPushUpdate, env,
                 others>>

\* loadMoreEmails after the await: the page read at the call, followed by
\* the emails returned.
LoadMoreEmailsDone(i, out) ==
  /\ pending[i].op = "loadMoreEmails"
  /\ LET page == GetEmails(server, reportsTotal, pending[i].dest,
                           emailsPerPage, Len(pending[i].emails), out)
     IN  /\ emails' = pending[i].emails \o page.emails
         /\ hasMoreEmails' = page.hasMore
         /\ totalEmails' = page.total
  /\ isLoadingMore' = FALSE
  /\ pending' = RemoveAt(pending, i)
  /\ ev' = [Event("loadMoreEmails", "done", out) EXCEPT
              !.dest = pending[i].dest, !.resolved = TRUE]
  /\ UNCHANGED <<mailboxes, selectedEmail, selectedMailbox, isLoading, error,
                 processingReadStatus, selectedEmailIds, deleteAction,
                 isAuthenticated, mutations, loads, server,
                 newEmailNotification, lastPushUpdate, env, others>>

\* A refresh that reports every non-empty page as new mail.
NewMailAlways(currentFirstEmailId, page) == page # <<>>

\* currentFirstEmailId !== newFirstEmailId && result.emails[0]
NewMail(currentFirstEmailId, page) ==
  currentFirstEmailId # FirstId(page) /\ page # <<>>

\* A refresh that shows its failure to the user.
RefreshFailureShown(err, out) ==
  IF out = "ok" THEN err ELSE "Failed to refresh current mailbox"

\* The error field after refreshCurrentMailbox: its catch block logs and
\* sets nothing.
RefreshFailure(err, out) == err

\* handleStateChange(change, client) up to its first await:
\* the timestamp (here the count of the update), the entry of the client's
\* account, then refreshCurrentMailbox up to its getEmails request, or, the
\* descriptor having no Email token or the store no selected mailbox,
\* fetchMailboxes up to its getAllMailboxes request.
HandleStateChange(change) ==
  /\ isAuthenticated
  /\ Len(pending) < MaxInFlight
  /\ lastPushUpdate < MaxPushes
  /\ lastPushUpdate' = lastPushUpdate + 1
  /\ ev' = [Event("handleStateChange", "call", "") EXCEPT
              !.account = change.account, !.types = change.types]
  /\ IF change.account # PrimaryAccount
     THEN UNCHANGED <<isLoading, error, pending>>
     ELSE IF "Email" \in change.types /\ selectedMailbox # ""
     THEN /\ pending' = Append(pending,
               [Call("refreshCurrentMailbox") EXCEPT
                  !.dest = JmapMailboxId(mailboxes, selectedMailbox),
                  !.types = change.types])
          /\ UNCHANGED <<isLoading, error>>
     ELSE IF "Mailbox" \in change.types
     THEN /\ isLoading' = TRUE
          /\ error' = NULL
          /\ pending' = Append(pending, Call("fetchMailboxes"))
     ELSE UNCHANGED <<isLoading, error, pending>>
  /\ UNCHANGED <<emails, mailboxes, selectedEmail, selectedMailbox,
                 processingReadStatus, selectedEmailIds, deleteAction,
                 isAuthenticated, mutations, loads, server, hasMoreEmails,
                 totalEmails, isLoadingMore, newEmailNotification, env,
                 others>>

\* refreshCurrentMailbox after the await, and handleStateChange from there
\* to its next await: the first email of the page as it is now against the
\* first email returned, the page replaced, then fetchMailboxes up to its
\* request when the descriptor has a Mailbox token.
RefreshCurrentMailboxDone(i, out) ==
  /\ pending[i].op = "refreshCurrentMailbox"
  /\ LET page == GetEmails(server, reportsTotal, pending[i].dest,
                           emailsPerPage, 0, out)
         refetch == "Mailbox" \in pending[i].types
     IN  /\ newEmailNotification' =
              IF NewMail(FirstId(emails), page.emails)
              THEN FirstId(page.emails) ELSE newEmailNotification
         /\ emails' = page.emails
         /\ hasMoreEmails' = page.hasMore
         /\ totalEmails' = page.total
         /\ error' = IF refetch THEN NULL ELSE RefreshFailure(error, out)
         /\ isLoading' = IF refetch THEN TRUE ELSE isLoading
         /\ pending' = IF refetch
                       THEN Append(RemoveAt(pending, i), Call("fetchMailboxes"))
                       ELSE RemoveAt(pending, i)
  /\ ev' = [Event("refreshCurrentMailbox", "done", out) EXCEPT
              !.dest = pending[i].dest, !.types = pending[i].types,
              !.first = FirstId(emails)]
  /\ UNCHANGED <<mailboxes, selectedEmail, selectedMailbox,
                 processingReadStatus, selectedEmailIds, deleteAction,
                 isAuthenticated, mutations, loads, server, isLoadingMore,
                 lastPushUpdate, env, others>>

Paging ==
  \/ FetchEmails
  \/ \E i \in Indices(pending), out \in Settled : FetchEmailsDone(i, out)
  \/ LoadMoreEmails
  \/ \E i \in Indices(pending), out \in Settled : LoadMoreEmailsDone(i, out)

Reconciling ==
  \/ \E change \in Changes : HandleStateChange(change)
  \/ \E i \in Indices(pending), out \in Settled :
       RefreshCurrentMailboxDone(i, out)
  \/ \E i \in Indices(pending), out \in Settled : FetchMailboxesDone(i, out)

ServerChanging ==
  \/ \E id \in SyncEmailIds : ServerArrival(id)
  \/ \E id \in SyncEmailIds : ServerRemoval(id)

NextSync == Paging \/ Reconciling \/ ServerChanging

SpecSync == InitSync /\ [][NextSync]_vars

\* C11: no email id occurs twice in the page, whatever fetchEmails,
\* loadMoreEmails, push refreshes, arrivals and removals came before.
NoDuplicateInPage ==
  \A i, j \in Indices(emails) : i # j => emails[i].id # emails[j].id

\* The requests of one operation among those in flight.
CountOp(p, op) == Cardinality({i \in Indices(p) : p[i].op = op})

\* The requests a step has sent: the ops the queue holds more of.
Sent(op) == CountOp(pending', op) - CountOp(pending, op)

\* The step is handleStateChange up to its first await, for a descriptor
\* with an entry for the client's account.
HandlesOwnChange ==
  ev'.op = "handleStateChange" /\ ev'.account = PrimaryAccount

\* The first page of a mailbox as the server holds it now, or no email
\* when the request failed.
FirstPage(mailboxId, out) ==
  IF out # "ok" THEN <<>>
  ELSE LET matching == InMailboxSeq(server.listing, mailboxId)
       IN  [k \in 1..(IF Len(matching) < emailsPerPage THEN Len(matching)
                                                         ELSE emailsPerPage)
              |-> matching[k]]

\* What handleStateChange does from an Email token on, the fetch being sent:
\* the page is replaced by the first page fetched, the notification is set
\* iff that page is not empty and its first id is not the previous first
\* id, and one mailbox-tree fetch follows iff the descriptor has a Mailbox
\* token.
RefreshSettles ==
  ev'.op = "refreshCurrentMailbox" =>
    /\ emails' = FirstPage(ev'.dest, ev'.out)
    /\ IF emails' # <<>> /\ FirstId(emails') # FirstId(emails)
       THEN newEmailNotification' = FirstId(emails')
       ELSE UNCHANGED newEmailNotification
    /\ Sent("refreshCurrentMailbox") = -1
    /\ Sent("fetchMailboxes") = IF "Mailbox" \in ev'.types THEN 1 ELSE 0

\* What a descriptor without an entry for the client's account does:
\* the timestamp and nothing else.
ForeignChangeIgnored ==
  (ev'.op = "handleStateChange" /\ ev'.account # PrimaryAccount) =>
    /\ pending' = pending
    /\ UNCHANGED <<storeVars, hasMoreEmails, totalEmails, isLoadingMore,
                   newEmailNotification>>

\* A Mailbox token without an email refresh before it: one mailbox-tree
\* fetch at once.
MailboxTokenRefetches ==
  (HandlesOwnChange /\ "Mailbox" \in ev'.types
     /\ ("Email" \notin ev'.types \/ selectedMailbox = "")) =>
    /\ Sent("fetchMailboxes") = 1
    /\ Sent("refreshCurrentMailbox") = 0

\* C15, as stated: a descriptor whose entry for the client's account has an
\* Email token makes handleStateChange send exactly one first-page fetch of
\* the active mailbox, replace the page by it and set the new-mail
\* notification iff the page fetched is not empty and starts with another
\* id than the page before; a Mailbox token makes it send exactly one
\* mailbox-tree fetch, after the email refresh; a descriptor with no entry
\* for the account sends nothing and changes nothing but lastPushUpdate.
EmailTokenAlwaysRefreshes ==
  [][/\ (HandlesOwnChange /\ "Email" \in ev'.types) =>
          /\ Sent("refreshCurrentMailbox") = 1
          /\ pending'[Len(pending')].dest = JmapMailboxId(mailboxes, selectedMailbox)
          /\ Sent("fetchMailboxes") = 0
     /\ RefreshSettles
     /\ MailboxTokenRefetches
     /\ ForeignChangeIgnored]_vars

\* C15, amended: the same, the fetch of the first page being sent when a
\* mailbox is selected; with none selected an Email token sends no fetch
\* and leaves the page as it is.
EmailTokenRefreshesSelected ==
  [][/\ (HandlesOwnChange /\ "Email" \in ev'.types /\ selectedMailbox # "") =>
          /\ Sent("refreshCurrentMailbox") = 1
          /\ pending'[Len(pending')].dest = JmapMailboxId(mailboxes, selectedMailbox)
          /\ Sent("fetchMailboxes") = 0
     /\ (HandlesOwnChange /\ "Email" \in ev'.types /\ selectedMailbox = "") =>
          /\ Sent("refreshCurrentMailbox") = 0
          /\ UNCHANGED <<emails, hasMoreEmails, totalEmails,
                         newEmailNotification>>
     /\ RefreshSettles
     /\ MailboxTokenRefetches
     /\ ForeignChangeIgnored]_vars

\* A refresh for a descriptor with both tokens has replaced a page that
\* started with another email, has set the notification and has sent the
\* mailbox-tree fetch.
EmailTokenRefreshesSelectedWitness ==
  /\ ev.op = "refreshCurrentMailbox"
  /\ ev.out = "ok"
  /\ ev.types = {"Email", "Mailbox"}
  /\ ev.first # NoId
  /\ emails # <<>>
  /\ FirstId(emails) # ev.first
  /\ newEmailNotification = FirstId(emails)
  /\ CountOp(pending, "fetchMailboxes") = 1

\* The steps of an execution of handleStateChange.
HandleStateChangeStep ==
  \/ \E change \in Changes : HandleStateChange(change)
  \/ \E i \in Indices(pending), out \in Settled :
       RefreshCurrentMailboxDone(i, out)
  \/ \E i \in Indices(pending), out \in Settled : FetchMailboxesDone(i, out)

\* C16: no step of handleStateChange, the failed email refresh and the
\* failed mailbox-tree fetch included, sets the error field to a value
\* other than null.
PushNeverSetsError ==
  [][HandleStateChangeStep => (error' = error \/ error' = NULL)]_vars

\* An email refresh has failed, for a descriptor with an Email token only,
\* and no error is shown.
PushNeverSetsErrorWitness ==
  /\ ev.op = "refreshCurrentMailbox"
  /\ ev.out = "failed"
  /\ ev.types = {"Email"}
  /\ error = NULL

(***************************************************************************)
(* The protocol client's timers: connect / disconnect and the keep-alive   *)
(* interval, setupPushNotifications / closePushNotifications and the poll  *)
(* interval.  The caller is free to call the public methods in any order;  *)
(* an interval fires whenever the runtime holds it; a request takes the    *)
(* server's tokens when it is sent and settles later, in any order.        *)
(***************************************************************************)
\* The state tokens the server goes through, per type.
MaxToken == 2
\* The poll intervals the runtime holds at once.
MaxTimers == 2

\* Everything but the client.
mailVars ==
  <<storeVars, deleteAction, isAuthenticated, pending, ev, mutations, loads,
    server, hasMoreEmails, totalEmails, pageRest, env, fnVars, authVars, uiVars>>

\* A request of the client itself, with the URL it is sent to and the
\* tokens the server has when it is sent.
ClientCall(op) ==
  [op |-> op, by |-> "", url |-> apiUrl, tokens |-> serverStates]

\* How the request can settle: a request sent to no URL gets no answer
\* from the server.
Answers(call) == IF call.url = "" THEN {"failed"} ELSE Settled

CanRequest == Len(clientCalls) < MaxInFlight

\* The objects of a type change on the server: its state token changes.
ServerStateChange(t) ==
  /\ serverStates[t] < MaxToken
  /\ serverStates' = [serverStates EXCEPT ![t] = @ + 1]
  /\ cev' = NoTick
  /\ UNCHANGED <<mailVars, apiUrl, clientAccountId, pingInterval,
                 pollingInterval, pollTimers, pollingStates,
                 stateChangeCallback, clientCalls, cancelled>>

\* connect(), called by the caller (login): up to the await of the session.
Connect ==
  /\ CanRequest
  /\ clientCalls' = Append(clientCalls,
       [ClientCall("connect") EXCEPT !.by = "caller", !.url = "session"])
  /\ cancelled' = [cancelled EXCEPT !.keepAlive = FALSE]
  /\ cev' = NoTick
  /\ UNCHANGED <<mailVars, apiUrl, clientAccountId, pingInterval,
                 pollingInterval, pollTimers, pollingStates,
                 stateChangeCallback, serverStates>>

\* connect() after the await, whoever called it: the session stored and
\* startKeepAlive(), or the error rethrown (reconnect's caller logs it).
ConnectDone(i, out) ==
  /\ clientCalls[i].op = "connect"
  /\ clientCalls' = RemoveAt(clientCalls, i)
  /\ IF out = "ok"
     THEN /\ apiUrl' = "api"
          /\ clientAccountId' = PrimaryAccount
          /\ pingInterval' = TRUE
     ELSE UNCHANGED <<apiUrl, clientAccountId, pingInterval>>
  /\ cev' = NoTick
  /\ UNCHANGED <<mailVars, pollingInterval, pollTimers, pollingStates,
                 stateChangeCallback, serverStates, cancelled>>

\* The keep-alive interval fires: ping() up to its request.
KeepAliveTick ==
  /\ pingInterval
  /\ apiUrl # ""
  /\ CanRequest
  /\ clientCalls' = Append(clientCalls, ClientCall("ping"))
  /\ cev' = NoTick
  /\ UNCHANGED <<mailVars, apiUrl, clientAccountId, pingInterval,
                 pollingInterval, pollTimers, pollingStates,
                 stateChangeCallback, serverStates, cancelled>>

\* The ping settles: on failure the interval's callback calls reconnect(),
\* that is connect().
PingDone(i, out) ==
  /\ clientCalls[i].op = "ping"
  /\ out \in Answers(clientCalls[i])
  /\ clientCalls' =
       IF out = "ok" THEN RemoveAt(clientCalls, i)
       ELSE Append(RemoveAt(clientCalls, i),
                   [ClientCall("connect") EXCEPT !.by = "reconnect",
                                                 !.url = "session"])
  /\ cev' = NoTick
  /\ UNCHANGED <<mailVars, apiUrl, clientAccountId, pingInterval,
                 pollingInterval, pollTimers, pollingStates,
                 stateChangeCallback, serverStates, cancelled>>

\* onStateChange(callback)
OnStateChange ==
  /\ ~stateChangeCallback
  /\ stateChangeCallback' = TRUE
  /\ cev' = NoTick
  /\ UNCHANGED <<mailVars, apiUrl, clientAccountId, pingInterval,
                 pollingInterval, pollTimers, pollingStates, clientCalls,
                 serverStates, cancelled>>

\* setupPushNotifications(): fetchCurrentStates() up to its request, and a
\* new interval whose handle replaces the one held.
SetupPushNotifications ==
  /\ CanRequest
  /\ pollTimers < MaxTimers
  /\ clientCalls' = Append(clientCalls,
       ClientCall("fetchCurrentStates"))
  /\ pollingInterval' = TRUE
  /\ pollTimers' = pollTimers + 1
  /\ cancelled' = [cancelled EXCEPT !.poll = FALSE]
  /\ cev' = NoTick
  /\ UNCHANGED <<mailVars, apiUrl, clientAccountId, pingInterval,
                 pollingStates, stateChangeCallback, serverStates>>

\* fetchCurrentStates after the await.
FetchCurrentStatesDone(i, out) ==
  /\ clientCalls[i].op = "fetchCurrentStates"
  /\ out \in Answers(clientCalls[i])
  /\ clientCalls' = RemoveAt(clientCalls, i)
  /\ pollingStates' = IF out = "ok" THEN clientCalls[i].tokens ELSE pollingStates
  /\ cev' = NoTick
  /\ UNCHANGED <<mailVars, apiUrl, clientAccountId, pingInterval,
                 pollingInterval, pollTimers, stateChangeCallback,
                 serverStates, cancelled>>

\* A poll interval fires: checkForStateChanges() up to its request.
PollTick ==
  /\ pollTimers > 0
  /\ CanRequest
  /\ clientCalls' = Append(clientCalls,
       ClientCall("checkForStateChanges"))
  /\ cev' = NoTick
  /\ UNCHANGED <<mailVars, apiUrl, clientAccountId, pingInterval,
                 pollingInterval, pollTimers, pollingStates,
                 stateChangeCallback, serverStates, cancelled>>

\* A poll that reports a type the first time it records its token.
ChangedOrNew(previous, returned) ==
  {t \in PolledTypes : previous[t] # returned[t]}

\* this.pollingStates[type] && this.pollingStates[type] !== result.state
ChangedTypes(previous, returned) ==
  {t \in PolledTypes : previous[t] # 0 /\ previous[t] # returned[t]}

\* checkForStateChanges after the await: the changed types, the tokens
\* recorded, the callback invoked with the one descriptor.
CheckForStateChangesDone(i, out) ==
  /\ clientCalls[i].op = "checkForStateChanges"
  /\ out \in Answers(clientCalls[i])
  /\ clientCalls' = RemoveAt(clientCalls, i)
  /\ LET returned == clientCalls[i].tokens
         changes == ChangedTypes(pollingStates, returned)
         hasChanges == changes # {}
     IN  IF out = "ok"
         THEN /\ pollingStates' = returned
              /\ cev' = [op |-> "checkForStateChanges", ok |-> TRUE,
                         invoked |-> IF hasChanges /\ stateChangeCallback
                                     THEN 1 ELSE 0,
                         account |-> clientAccountId,
                         changed |-> [t \in PolledTypes |->
                                        IF t \in changes THEN returned[t] ELSE 0],
                         previous |-> pollingStates, returned |-> returned]
         ELSE /\ UNCHANGED pollingStates
              /\ cev' = [NoTick EXCEPT !.op = "checkForStateChanges",
                                       !.previous = pollingStates]
  /\ UNCHANGED <<mailVars, apiUrl, clientAccountId, pingInterval,
                 pollingInterval, pollTimers, stateChangeCallback,
                 serverStates, cancelled>>

\* closePushNotifications(): the interval whose handle is held is cleared.
ClosePushNotifications ==
  /\ pollTimers' = IF pollingInterval THEN pollTimers - 1 ELSE pollTimers
  /\ pollingInterval' = FALSE
  /\ stateChangeCallback' = FALSE
  /\ pollingStates' = NoStates
  /\ cancelled' = [cancelled EXCEPT !.poll = TRUE]
  /\ cev' = NoTick
  /\ UNCHANGED <<mailVars, apiUrl, clientAccountId, pingInterval,
                 clientCalls, serverStates>>

\* disconnect(): stopKeepAlive(), closePushNotifications(), the session
\* forgotten.
Disconnect ==
  /\ pingInterval' = FALSE
  /\ pollTimers' = IF pollingInterval THEN pollTimers - 1 ELSE pollTimers
  /\ pollingInterval' = FALSE
  /\ stateChangeCallback' = FALSE
  /\ pollingStates' = NoStates
  /\ apiUrl' = ""
  /\ clientAccountId' = ""
  /\ cancelled' = [keepAlive |-> TRUE, poll |-> TRUE]
  /\ cev' = NoTick
  /\ UNCHANGED <<mailVars, clientCalls, serverStates>>

Connecting ==
  \/ Connect
  \/ \E i \in Indices(clientCalls), out \in Settled : ConnectDone(i, out)
  \/ Disconnect

KeepingAlive ==
  \/ KeepAliveTick
  \/ \E i \in Indices(clientCalls), out \in Settled : PingDone(i, out)

Polling ==
  \/ OnStateChange
  \/ SetupPushNotifications
  \/ \E i \in Indices(clientCalls), out \in Settled : FetchCurrentStatesDone(i, out)
  \/ PollTick
  \/ \E i \in Indices(clientCalls), out \in Settled :
       CheckForStateChangesDone(i, out)
  \/ ClosePushNotifications
  \/ \E t \in PolledTypes : ServerStateChange(t)

InitClient ==
  /\ server \in {w \in ServerWorlds :
                   w.listing = <<>> /\ ~w.hasTrash /\ w.hidden = 0}
  /\ deleteAction = "trash"
  /\ isAuthenticated = FALSE
  /\ StoreAsCreated
  /\ PageAsCreated
  /\ emailsPerPage = DefaultEmailsPerPage
  /\ reportsTotal = FALSE
  /\ NoFunction
  /\ ClientAsCreated
  /\ SessionAsCreated
  /\ UiAsCreated

NextClient == Connecting \/ KeepingAlive \/ Polling

SpecClient == InitClient /\ [][NextClient]_vars

\* Whether the poll whose completion the step is found a type changed.
Differs(t) ==
  cev'.previous[t] # 0 /\ cev'.previous[t] # cev'.returned[t]

\* What every completion of a poll does: at most one invocation, none
\* without an OK response and a changed type; the descriptor of an
\* invocation holds exactly the changed types, each with its new token;
\* after an OK response the recorded tokens are the returned ones; a failed
\* poll invokes nothing, leaves the recorded tokens as they were and leaves
\* the interval running.
PollSettles ==
  /\ cev'.invoked \in {0, 1}
  /\ cev'.invoked = 1 => (cev'.ok /\ \E t \in PolledTypes : Differs(t))
  /\ cev'.invoked = 1 =>
       \A t \in PolledTypes :
         cev'.changed[t] = IF Differs(t) THEN cev'.returned[t] ELSE 0
  /\ cev'.ok => pollingStates' = cev'.returned
  /\ ~cev'.ok =>
       /\ cev'.invoked = 0
       /\ UNCHANGED <<pollingStates, pollTimers, pollingInterval,
                      stateChangeCallback>>

TimersStayCancelled ==
  /\ cancelled.keepAlive => ~pingInterval
  /\ cancelled.poll => (pollTimers = 0 /\ ~pollingInterval)

(***************************************************************************)
(* Shared accounts: a session with the primary account and one account     *)
(* shared with the user.  Each account numbers its own mailboxes, so the   *)
(* two trees use the same ids.  Init draws how the Mailbox/get of each     *)
(* account settles, the store mailbox the user selects ("" for none), the  *)
(* client function that fetches and the membership (mailboxIds) of the     *)
(* email the server returns.                                               *)
(***************************************************************************)
SharedAccount == "team"

\* Object.keys(this.accounts)
SessionAccounts == <<PrimaryAccount, SharedAccount>>

\* The Mailbox/get list of an account: an inbox and a child of it.
RawMailboxes ==
  <<[id |-> "inbox", parentId |-> "", role |-> "inbox"],
    [id |-> "archive", parentId |-> "inbox", role |-> "archive"]>>

RawIds == {RawMailboxes[k].id : k \in Indices(RawMailboxes)}

\* An id stored as the server gives it.
Unprefixed(account, id) == id

\* `${accountId}:${mb.id}`
NamespacedId(account, id) == account \o ":" \o id

\* getAllMailboxes: the Mailbox object made of one mailbox of an account.
AccountMailbox(account, isPrimary, mb) ==
  [id |-> IF isPrimary THEN mb.id ELSE NamespacedId(account, mb.id),
   originalId |-> mb.id,
   parentId |-> IF mb.parentId # ""
                THEN IF isPrimary THEN mb.parentId
                     ELSE NamespacedId(account, mb.parentId)
                ELSE "",
   role |-> mb.role, isShared |-> ~isPrimary, accountId |-> account,
   totalEmails |-> 0, unreadEmails |-> 0, totalThreads |-> 0,
   unreadThreads |-> 0]

\* getAllMailboxes over the accounts of the session, in order: the
\* mailboxes of an account whose request fails are left out.
RECURSIVE GetAccountsMailboxes(_, _, _)
GetAccountsMailboxes(accounts, primary, outs) ==
  IF accounts = <<>> THEN <<>>
  ELSE LET account == Head(accounts)
           mapped == [k \in Indices(RawMailboxes) |->
                        AccountMailbox(account, account = primary,
                                       RawMailboxes[k])]
       IN  (IF outs[account] = "ok" THEN mapped ELSE <<>>)
             \o GetAccountsMailboxes(Tail(accounts), primary, outs)

\* getEmails / getEmail / getThreadEmails: the mailboxIds of an email
\* fetched with accountId ("" = undefined) by the client of `primary`.
NamespaceMailboxIds(mailboxIds, account, primary) ==
  IF account # "" /\ account # primary
  THEN [key \in {NamespacedId(account, mbId) : mbId \in DOMAIN mailboxIds} |->
          mailboxIds[CHOOSE mbId \in DOMAIN mailboxIds :
                       NamespacedId(account, mbId) = key]]
  ELSE mailboxIds

\* The memberships an email can have: some of the account's mailboxes, each
\* with its value.
Memberships ==
  UNION {[S -> BOOLEAN] : S \in (SUBSET RawIds) \ {{}}}

SharedArgs ==
  [fn : {"getEmails", "getEmail", "getThreadEmails"},
   outs : [{PrimaryAccount, SharedAccount} -> Settled],
   target : {""} \cup RawIds \cup {NamespacedId(SharedAccount, id) : id \in RawIds},
   mailboxIds : Memberships]

InitShared ==
  /\ args \in SharedArgs
  /\ result = <<>>
  /\ server \in {w \in ServerWorlds :
                   w.listing = <<>> /\ ~w.hasTrash /\ w.hidden = 0}
  /\ deleteAction = "trash"
  /\ isAuthenticated = TRUE
  /\ StoreAsCreated
  /\ PageAsCreated
  /\ emailsPerPage = DefaultEmailsPerPage
  /\ reportsTotal = FALSE
  /\ ClientAsCreated
  /\ SessionAsCreated
  /\ UiAsCreated

\* fetchMailboxes: the store takes the list getAllMailboxes returns.
ListAccountsMailboxes ==
  /\ result = <<>>
  /\ mailboxes' = GetAccountsMailboxes(SessionAccounts, PrimaryAccount, args.outs)
  /\ result' = [step |-> "listed"]
  /\ UNCHANGED <<emails, selectedEmail, selectedMailbox, isLoading, error,
                 processingReadStatus, selectedEmailIds, deleteAction,
                 isAuthenticated, pending, ev, mutations, loads, server,
                 hasMoreEmails, totalEmails, pageRest, env, args, clientVars, authVars, uiVars>>

\* fetchEmails (or the fetch of one email or thread) for the mailbox
\* selected: the account and the original id the store finds for it, and
\* the email the client returns.  The server returns an email of the
\* mailbox asked for.
FetchSharedEmail ==
  /\ result # <<>> /\ result.step = "listed"
  /\ args.target = "" \/ FindMailbox(mailboxes, args.target) # NoMailbox
  /\ LET account == SharedAccountOf(mailboxes, args.target)
         jmapMailboxId == JmapMailboxId(mailboxes, args.target)
     IN  /\ jmapMailboxId = "" \/ jmapMailboxId \in DOMAIN args.mailboxIds
         /\ result' = [step |-> "fetched", accountId |-> account,
                       jmapMailboxId |-> jmapMailboxId,
                       mailboxIds |-> NamespaceMailboxIds(args.mailboxIds,
                                        account, PrimaryAccount)]
  /\ UNCHANGED <<storeVars, deleteAction, isAuthenticated, pending, ev,
                 mutations, loads, server, hasMoreEmails, totalEmails,
                 pageRest, env, args, clientVars, authVars, uiVars>>

NextShared == ListAccountsMailboxes \/ FetchSharedEmail

SpecShared == InitShared /\ [][NextShared]_vars

\* The ids of the mailboxes in the store.
StoreIds == {mailboxes[k].id : k \in Indices(mailboxes)}

\* The account an email was fetched from.
FetchedFrom == IF result.accountId = "" THEN PrimaryAccount ELSE result.accountId

\* What getAllMailboxes returns: of every account whose request succeeded
\* every mailbox, of the other accounts none; a mailbox of the shared
\* account A under the id A:originalId, its parent namespaced alike; a
\* mailbox of the primary account under its own id.
MailboxesNamespaced ==
  result # <<>> =>
    /\ \A k \in Indices(mailboxes) :
         LET mb == mailboxes[k]
         IN  /\ args.outs[mb.accountId] = "ok"
             /\ mb.originalId \in RawIds
             /\ mb.isShared <=> mb.accountId # PrimaryAccount
             /\ mb.id = IF mb.isShared
                        THEN mb.accountId \o ":" \o mb.originalId
                        ELSE mb.originalId
             /\ \E r \in Indices(RawMailboxes) :
                  /\ RawMailboxes[r].id = mb.originalId
                  /\ mb.parentId =
                       IF RawMailboxes[r].parentId = "" THEN ""
                       ELSE IF mb.isShared
                            THEN mb.accountId \o ":" \o RawMailboxes[r].parentId
                            ELSE RawMailboxes[r].parentId
    /\ \A a \in {PrimaryAccount, SharedAccount}, id \in RawIds :
         args.outs[a] = "ok" =>
           \E k \in Indices(mailboxes) :
             mailboxes[k].accountId = a /\ mailboxes[k].originalId = id

\* What a fetch for a store mailbox does: the store finds the account and
\* the original id the mailbox id was made of, and the keys of the email's
\* membership are rewritten to A:key, values kept, iff the account is not
\* the primary one.
EmailKeysNamespaced ==
  (result # <<>> /\ result.step = "fetched") =>
    /\ args.target # "" =>
         LET mb == FindMailbox(mailboxes, args.target)
         IN  /\ FetchedFrom = mb.accountId
             /\ result.jmapMailboxId = mb.originalId
    /\ IF FetchedFrom = PrimaryAccount
       THEN result.mailboxIds = args.mailboxIds
       ELSE /\ DOMAIN result.mailboxIds =
                 {FetchedFrom \o ":" \o key : key \in DOMAIN args.mailboxIds}
            /\ \A key \in DOMAIN args.mailboxIds :
                 result.mailboxIds[FetchedFrom \o ":" \o key] = args.mailboxIds[key]

MaxLifetimes == 2
MaxLogins == 2

Urls == {TheUrl}
Users == {TheUser, "bob"}
Passwords == {ThePassword, "hunter2"}

\* The session store's state now.
Session ==
  SessionState(isAuthenticated, authLoading, authError, serverUrl, username,
               client)

\* The session store's set(partial): the state is replaced and the persist
\* middleware writes the part of it that partialize keeps.
SetSession(st) ==
  /\ isAuthenticated' = st.isAuthenticated
  /\ authLoading' = st.isLoading
  /\ authError' = st.error
  /\ serverUrl' = st.serverUrl
  /\ username' = st.username
  /\ client' = st.client
  /\ persisted' = Partialize(st)

\* What of the mail store, the page and the JMAP client an action of the
\* session store leaves alone.
mailSide ==
  <<storeVars, deleteAction, pending, ev, mutations, loads, server,
    hasMoreEmails, totalEmails, pageRest, env, fnVars, clientVars, uiVars>>

InitAuth ==
  /\ server = [listing |-> <<>>, hasTrash |-> FALSE, hidden |-> 0]
  /\ deleteAction = "trash"
  /\ isAuthenticated = FALSE
  /\ StoreAsCreated
  /\ PageAsCreated
  /\ emailsPerPage = DefaultEmailsPerPage
  /\ reportsTotal = FALSE
  /\ NoFunction
  /\ ClientAsCreated
  /\ SessionAsCreated
  /\ UiAsCreated

\* login, up to `await client.connect()`.
LoginCall(url, user, password) ==
  /\ Len(logins) < MaxLogins
  /\ SetSession([Session EXCEPT !.isLoading = TRUE, !.error = NULL])
  /\ logins' = Append(logins,
                      NewClient(url, user, password, FALSE, lifetime))
  /\ UNCHANGED <<mailSide, lifetime>>

\* login, from the settling of client.connect() on.
LoginDone(i, out) ==
  /\ i \in 1..Len(logins)
  /\ LET c == logins[i] IN
       IF out = "ok"
       THEN SetSession([Session EXCEPT
                          !.isAuthenticated = TRUE, !.isLoading = FALSE,
                          !.serverUrl = c.serverUrl,
                          !.username = c.username,
                          !.client = [c EXCEPT !.connected = TRUE],
                          !.error = NULL])
       ELSE SetSession([Session EXCEPT
                          !.isLoading = FALSE, !.error = ErrorMessage(out),
                          !.isAuthenticated = FALSE, !.client = NoClient])
  /\ logins' = RemoveAt(logins, i)
  /\ UNCHANGED <<mailSide, lifetime>>

\* checkAuth
CheckAuth ==
  /\ LET reset == IF isAuthenticated /\ client = NoClient
                  THEN [Session EXCEPT !.isAuthenticated = FALSE,
                                       !.isLoading = FALSE,
                                       !.client = NoClient,
                                       !.serverUrl = NULL,
                                       !.username = NULL]
                  ELSE Session
     IN SetSession([reset EXCEPT !.isLoading = FALSE])
  /\ UNCHANGED <<mailSide, lifetime, logins>>

\* clearError
ClearError ==
  /\ authError # NULL
  /\ SetSession([Session EXCEPT !.error = NULL])
  /\ UNCHANGED <<mailSide, lifetime, logins>>

\* The page is loaded again: the stores are created anew, the session
\* store takes what localStorage holds, and the calls of the page before
\* never settle into the new stores.
Reload ==
  /\ lifetime < MaxLifetimes
  /\ lifetime' = lifetime + 1
  /\ isAuthenticated' = FALSE
  /\ authLoading' = FALSE
  /\ authError' = NULL
  /\ client' = NoClient
  /\ serverUrl' = IF persisted = Absent THEN NULL ELSE persisted.serverUrl
  /\ username' = IF persisted = Absent THEN NULL ELSE persisted.username
  /\ logins' = <<>>
  /\ emails' = <<>>
  /\ mailboxes' = <<>>
  /\ selectedEmail' = NoEmail
  /\ selectedMailbox' = ""
  /\ isLoading' = FALSE
  /\ error' = NULL
  /\ processingReadStatus' = {}
  /\ selectedEmailIds' = {}
  /\ pending' = <<>>
  /\ ev' = Idle
  /\ hasMoreEmails' = FALSE
  /\ totalEmails' = 0
  /\ isLoadingMore' = FALSE
  /\ newEmailNotification' = NoId
  /\ lastPushUpdate' = 0
  /\ expandedThreadIds' = {}
  /\ threadEmailsCache' = NoThreads
  /\ isLoadingThread' = NULL
  /\ threadCalls' = <<>>
  /\ tev' = NoThreadStep
  /\ markAsReadTimeoutRef' = NoId
  /\ conversationThread' = FALSE
  /\ conversationEmails' = <<>>
  /\ expandedIds' = {}
  /\ cardTimeouts' = {}
  /\ rev' = NoReading
  /\ isPushConnected' = FALSE
  /\ loadData' = ""
  /\ effectDeps' = NoDeps
  /\ UNCHANGED <<persisted, deleteAction, mutations, loads, server, env,
                 fnVars, clientVars, markAsReadDelay, isMobile>>

NextAuth ==
  \/ \E url \in Urls, user \in Users, password \in Passwords :
       LoginCall(url, user, password)
  \/ \E i \in 1..MaxLogins, out \in Settled : LoginDone(i, out)
  \/ Logout
  \/ CheckAuth
  \/ ClearError
  \/ Reload

SpecAuth == InitAuth /\ [][NextAuth]_vars

\* What localStorage holds of the session, value by value.
StoredValues ==
  IF persisted = Absent THEN {} ELSE {persisted[f] : f \in DOMAIN persisted}

\* What must never be stored: a password, or the header derived from it.
Secrets ==
  Passwords \cup {AuthHeader(user, password) :
                    user \in Users, password \in Passwords}

\* C18: whatever the session store holds in localStorage is the record of
\* the store's serverUrl and username and nothing else, so it is the same
\* for two logins that differ in the password only, and no password and no
\* auth header is among the stored values; and whenever isAuthenticated
\* holds, the store holds a client whose connect() succeeded and which a
\* login of the current page load created.
PersistsUrlAndUserOnly ==
  /\ persisted # Absent =>
       persisted = [serverUrl |-> serverUrl, username |-> username]
  /\ StoredValues \cap Secrets = {}
  /\ isAuthenticated =>
       /\ client # NoClient
       /\ client.connected
       /\ client.lifetime = lifetime

\* A second page load in which a login with another password than the
\* user's succeeded, the stored item being the one of the user.
PersistsUrlAndUserOnlyWitness ==
  /\ lifetime = 2
  /\ isAuthenticated
  /\ client.password # ThePassword
  /\ client.username = TheUser
  /\ persisted = [serverUrl |-> TheUrl, username |-> TheUser]


(***************************************************************************)
(* The thread utilities (src/lib/thread-utils.ts).                         *)
(***************************************************************************)

MaxThreadEmailId == 2
MaxReceivedAt == 2
MaxThreadInput == 3
MaxGroupInput == 2
MaxFetched == 2

ThreadIds == {"t1", "t2"}

\* The emails the thread utilities are given: what of an Email they read.
\* `seen` is keywords.$seen; hasStarred and hasAttachment are computed as
\* hasUnread is and are left out, as is participantNames.
ThreadEmails ==
  [id : 1..MaxThreadEmailId, threadId : ThreadIds,
   receivedAt : 1..MaxReceivedAt, seen : BOOLEAN]

\* The lists of at most n of them.
ThreadEmailLists(n) == UNION {[1..k -> ThreadEmails] : k \in 0..n}

\* threadMap.set(threadId, [email]): a mapping of a thread that forgets
\* the emails it held.
ThreadMapSet(map, email) ==
  IF \E i \in Indices(map) : map[i].threadId = email.threadId
  THEN [i \in Indices(map) |->
          IF map[i].threadId = email.threadId
          THEN [map[i] EXCEPT !.emails = <<email>>] ELSE map[i]]
  ELSE Append(map, [threadId |-> email.threadId, emails |-> <<email>>])

\* groupEmailsByThread, one turn of the first loop: the Map keeps its keys
\* in the order of their first insertion.
ThreadMapPush(map, email) ==
  IF \E i \in Indices(map) : map[i].threadId = email.threadId
  THEN [i \in Indices(map) |->
          IF map[i].threadId = email.threadId
          THEN [map[i] EXCEPT !.emails = Append(@, email)] ELSE map[i]]
  ELSE Append(map, [threadId |-> email.threadId, emails |-> <<email>>])

RECURSIVE ThreadMapOf(_, _)
ThreadMapOf(map, es) ==
  IF es = <<>> THEN map
  ELSE ThreadMapOf(ThreadMapPush(map, Head(es)), Tail(es))

\* One insertion of the stable sort: e goes behind every email received
\* at the same time or later.
InsertByReceivedAt(sorted, e) ==
  LET before == {i \in Indices(sorted) : sorted[i].receivedAt >= e.receivedAt}
      n == Cardinality(before)
  IN  SubSeq(sorted, 1, n) \o <<e>> \o SubSeq(sorted, n + 1, Len(sorted))

\* [...emails].sort((a, b) => b.receivedAt - a.receivedAt): newest first,
\* emails received at the same time in the order they had.
RECURSIVE SortNewestFirst(_, _)
SortNewestFirst(sorted, es) ==
  IF es = <<>> THEN sorted
  ELSE SortNewestFirst(InsertByReceivedAt(sorted, Head(es)), Tail(es))

\* The ThreadGroup of a thread and its emails, newest first.
\* latestEmail is undefined (NoEmail here) when there is no email.
ThreadGroup(threadId, sortedEmails) ==
  [threadId |-> threadId,
   emails |-> sortedEmails,
   latestEmail |-> IF sortedEmails = <<>> THEN NoEmail ELSE sortedEmails[1],
   hasUnread |-> \E i \in Indices(sortedEmails) : ~sortedEmails[i].seen,
   emailCount |-> Len(sortedEmails)]

\* groupEmailsByThread
GroupEmailsByThread(es) ==
  LET threadMap == ThreadMapOf(<<>>, es)
  IN  IF es = <<>> THEN <<>>
      ELSE [i \in Indices(threadMap) |->
              ThreadGroup(threadMap[i].threadId,
                          SortNewestFirst(<<>>, threadMap[i].emails))]

\* emailMap.set(email.id, email): the value of a key the Map holds is
\* replaced where it is, a new key goes last.
EmailMapSet(map, email) ==
  IF \E i \in Indices(map) : map[i].id = email.id
  THEN [i \in Indices(map) |->
          IF map[i].id = email.id THEN email ELSE map[i]]
  ELSE Append(map, email)

\* A second loop without the has() test: every fetched email is added.
EmailMapAppend(map, email) == Append(map, email)

\* mergeThreadEmails, one turn of the second loop.
EmailMapAdd(map, email) ==
  IF \E i \in Indices(map) : map[i].id = email.id
  THEN map
  ELSE EmailMapSet(map, email)

RECURSIVE EmailMapOf(_, _)
EmailMapOf(map, es) ==
  IF es = <<>> THEN map
  ELSE EmailMapOf(EmailMapSet(map, Head(es)), Tail(es))

RECURSIVE EmailMapWith(_, _)
EmailMapWith(map, es) ==
  IF es = <<>> THEN map
  ELSE EmailMapWith(EmailMapAdd(map, Head(es)), Tail(es))

\* mergeThreadEmails
MergeThreadEmails(existingGroup, fetchedEmails) ==
  LET emailMap == EmailMapWith(EmailMapOf(<<>>, existingGroup.emails),
                               fetchedEmails)
  IN  ThreadGroup(existingGroup.threadId, SortNewestFirst(<<>>, emailMap))

\* How often e is in es.
Occurrences(e, es) == Cardinality({i \in Indices(es) : es[i] = e})

RECURSIVE SumOfCounts(_)
SumOfCounts(groups) ==
  IF groups = <<>> THEN 0
  ELSE Head(groups).emailCount + SumOfCounts(Tail(groups))

studyRest ==
  <<storeVars, deleteAction, isAuthenticated, pending, ev, mutations, loads,
    server, hasMoreEmails, totalEmails, pageRest, env, clientVars, authVars, uiVars>>

StudyAsCreated ==
  /\ server = [listing |-> <<>>, hasTrash |-> FALSE, hidden |-> 0]
  /\ deleteAction = "trash"
  /\ isAuthenticated = TRUE
  /\ StoreAsCreated
  /\ PageAsCreated
  /\ emailsPerPage = DefaultEmailsPerPage
  /\ reportsTotal = FALSE
  /\ ClientAsCreated
  /\ SessionAsCreated
  /\ UiAsCreated

InitGroup ==
  /\ args \in [fn : {"groupEmailsByThread"},
               emails : ThreadEmailLists(MaxThreadInput)]
  /\ result = <<>>
  /\ StudyAsCreated

CallGroupEmailsByThread ==
  /\ result = <<>>
  /\ result' = [groups |-> GroupEmailsByThread(args.emails)]
  /\ UNCHANGED <<studyRest, args>>

NextGroup == CallGroupEmailsByThread

SpecGroup == InitGroup /\ [][NextGroup]_vars

\* C19: the groups groupEmailsByThread returns partition its input: every
\* email of the input is in the group of its threadId as often as it is in
\* the input and in no other group, no two groups have the same threadId,
\* each group's emailCount is the number of its emails, and the counts add
\* up to the length of the input.
GroupsPartitionInput ==
  result # <<>> =>
    LET groups == result.groups
        input == args.emails
    IN  /\ \A k \in Indices(input) :
             \E i \in Indices(groups) :
               /\ groups[i].threadId = input[k].threadId
               /\ Occurrences(input[k], groups[i].emails)
                    = Occurrences(input[k], input)
               /\ \A j \in Indices(groups) \ {i} :
                    Occurrences(input[k], groups[j].emails) = 0
        /\ \A i, j \in Indices(groups) :
             i # j => groups[i].threadId # groups[j].threadId
        /\ \A i \in Indices(groups) :
             /\ groups[i].emailCount = Len(groups[i].emails)
             /\ groups[i].emailCount >= 1
        /\ SumOfCounts(groups) = Len(input)

\* Three emails were grouped into a thread of two and a thread of one.
GroupsPartitionInputWitness ==
  /\ result # <<>>
  /\ Len(args.emails) = 3
  /\ Len(result.groups) = 2
  /\ result.groups[1].emailCount = 1
  /\ result.groups[2].emailCount = 2

\* The groups a list of emails gives, and the lists fetched for them.
MergeArgs ==
  {[fn |-> "mergeThreadEmails", existingGroup |-> g, fetchedEmails |-> f] :
     g \in UNION {{GroupEmailsByThread(es)[i] :
                     i \in Indices(GroupEmailsByThread(es))} :
                  es \in ThreadEmailLists(MaxGroupInput)},
     f \in ThreadEmailLists(MaxFetched)}

InitMerge ==
  /\ args \in MergeArgs
  /\ result = <<>>
  /\ StudyAsCreated

CallMergeThreadEmails ==
  /\ result = <<>>
  /\ result' = [once |-> MergeThreadEmails(args.existingGroup,
                                           args.fetchedEmails)]
  /\ UNCHANGED <<studyRest, args>>

\* The fetched emails are merged into the merged group once more.
CallMergeThreadEmailsAgain ==
  /\ result # <<>>
  /\ DOMAIN result = {"once"}
  /\ result' = [once |-> result.once,
                twice |-> MergeThreadEmails(result.once, args.fetchedEmails)]
  /\ UNCHANGED <<studyRest, args>>

NextMerge ==
  \/ CallMergeThreadEmails
  \/ CallMergeThreadEmailsAgain

SpecMerge == InitMerge /\ [][NextMerge]_vars

\* C20: merging the same fetched emails into the merged group again gives
\* the merged group; the merged group holds every id at most once, holds
\* an email of the existing group for every id that group had, and its
\* emailCount is the number of distinct ids of the group and the fetched
\* emails.
MergeIsIdempotent ==
  result # <<>> =>
    LET merged == result.once
        g == args.existingGroup.emails
        f == args.fetchedEmails
    IN  /\ "twice" \in DOMAIN result => result.twice = result.once
        /\ \A i, j \in Indices(merged.emails) :
             i # j => merged.emails[i].id # merged.emails[j].id
        /\ \A i \in Indices(merged.emails) :
             merged.emails[i].id \in PageIds(g) =>
               \E k \in Indices(g) : g[k] = merged.emails[i]
        /\ merged.emailCount = Cardinality(PageIds(g) \cup PageIds(f))
        /\ merged.emailCount = Len(merged.emails)

\* The fetched emails were merged twice, one of them being another copy of
\* an email of the group and one of them new to it.
MergeIsIdempotentWitness ==
  /\ result # <<>>
  /\ "twice" \in DOMAIN result
  /\ \E i \in Indices(args.fetchedEmails) :
       /\ args.fetchedEmails[i].id \in PageIds(args.existingGroup.emails)
       /\ \A k \in Indices(args.existingGroup.emails) :
            args.existingGroup.emails[k] # args.fetchedEmails[i]
  /\ \E i \in Indices(args.fetchedEmails) :
       args.fetchedEmails[i].id \notin PageIds(args.existingGroup.emails)


(***************************************************************************)
(* The settings store's export and import (src/stores/settings-store.ts).  *)
(***************************************************************************)

MaxChangedSettings == 1
MaxImportKeys == 2

\* JavaScript values, tagged with their type.
Str(s) == [t |-> "string", s |-> s]
Num(n) == [t |-> "number", n |-> n]
Bool(b) == [t |-> "boolean", b |-> b]

\* DEFAULT_SETTINGS
DEFAULT_SETTINGS ==
  [fontSize |-> Str("medium"), listDensity |-> Str("regular"),
   animationsEnabled |-> Bool(TRUE), dateFormat |-> Str("regional"),
   timeFormat |-> Str("24h"), firstDayOfWeek |-> Num(1),
   markAsReadDelay |-> Num(0), deleteAction |-> Str("trash"),
   showPreview |-> Bool(TRUE), emailsPerPage |-> Num(DefaultEmailsPerPage),
   externalContentPolicy |-> Str("ask"), autoSaveDraftInterval |-> Num(60000),
   sendConfirmation |-> Bool(FALSE), defaultReplyMode |-> Str("reply"),
   sessionTimeout |-> Num(0), debugMode |-> Bool(FALSE)]

\* The recognized settings fields.
SettingsKeys == DOMAIN DEFAULT_SETTINGS

\* What every object inherits from Object.prototype, two names of it.
ObjectPrototypeKeys == {"toString", "constructor"}

\* A key no object has.
UnknownKeys == {"theme"}

\* Another value of the field's type than the default one.
OtherValue(key) ==
  LET d == DEFAULT_SETTINGS[key]
  IN  CASE d.t = "string" -> Str("other")
        [] d.t = "number" -> Num(-1)
        [] d.t = "boolean" -> Bool(~d.b)

\* The values a JSON text of the study holds.
JsonValues ==
  {DEFAULT_SETTINGS[k] : k \in SettingsKeys}
    \cup {OtherValue(k) : k \in SettingsKeys}

\* state with state[key] = value, a new key being added.
SetKey(st, key, value) ==
  [k \in DOMAIN st \cup {key} |-> IF k = key THEN value ELSE st[k]]

\* The settings states with at most MaxChangedSettings fields off default.
SettingsStates ==
  {DEFAULT_SETTINGS}
    \cup (IF MaxChangedSettings >= 1
          THEN {SetKey(DEFAULT_SETTINGS, k, OtherValue(k)) :
                  k \in SettingsKeys}
          ELSE {})
    \cup (IF MaxChangedSettings >= 2
          THEN {SetKey(SetKey(DEFAULT_SETTINGS, k, OtherValue(k)),
                       j, OtherValue(j)) :
                  k \in {"markAsReadDelay"}, j \in SettingsKeys}
          ELSE {})

\* JSON.stringify of a value.
StringifyValue(v) ==
  CASE v.t = "string" -> "\"" \o v.s \o "\""
    [] v.t = "number" -> ToString(v.n)
    [] v.t = "boolean" -> IF v.b THEN "true" ELSE "false"

\* JSON.parse of the text of a value.
ParseValue(text) == CHOOSE v \in JsonValues : StringifyValue(v) = text

\* JSON.stringify of an object: its members in order, values as text.
\* A text that is no JSON, and the text of a value that is no object.
NotJson == [kind |-> "garbage", members |-> <<>>]
JsonNull == [kind |-> "null", members |-> <<>>]
StringifyObject(members) ==
  [kind |-> "object",
   members |-> [i \in Indices(members) |->
                  [key |-> members[i].key,
                   text |-> StringifyValue(members[i].value)]]]

\* exportSettings
ExportSettings(state) ==
  StringifyObject(
    << [key |-> "fontSize", value |-> state.fontSize],
       [key |-> "listDensity", value |-> state.listDensity],
       [key |-> "animationsEnabled", value |-> state.animationsEnabled],
       [key |-> "dateFormat", value |-> state.dateFormat],
       [key |-> "timeFormat", value |-> state.timeFormat],
       [key |-> "firstDayOfWeek", value |-> state.firstDayOfWeek],
       [key |-> "markAsReadDelay", value |-> state.markAsReadDelay],
       [key |-> "deleteAction", value |-> state.deleteAction],
       [key |-> "showPreview", value |-> state.showPreview],
       [key |-> "emailsPerPage", value |-> state.emailsPerPage],
       [key |-> "externalContentPolicy",
        value |-> state.externalContentPolicy],
       [key |-> "autoSaveDraftInterval",
        value |-> state.autoSaveDraftInterval],
       [key |-> "sendConfirmation", value |-> state.sendConfirmation],
       [key |-> "defaultReplyMode", value |-> state.defaultReplyMode],
       [key |-> "sessionTimeout", value |-> state.sessionTimeout],
       [key |-> "debugMode", value |-> state.debugMode] >>)

\* key in DEFAULT_SETTINGS: own and inherited properties.
InDefaultSettings(key) == key \in SettingsKeys \cup ObjectPrototypeKeys

RECURSIVE ApplySettings(_, _)
ApplySettings(state, members) ==
  IF members = <<>> THEN state
  ELSE LET m == Head(members)
       IN  ApplySettings(IF InDefaultSettings(m.key)
                         THEN SetKey(state, m.key, ParseValue(m.text))
                         ELSE state,
                         Tail(members))

\* importSettings: what it returns and the state it leaves.
ImportSettings(state, json) ==
  IF json.kind # "object"
  THEN [ok |-> FALSE, state |-> state]
  ELSE [ok |-> TRUE, state |-> ApplySettings(state, json.members)]

\* The objects of at most MaxImportKeys members.
ImportKeys == {"fontSize", "markAsReadDelay"} \cup ObjectPrototypeKeys
                \cup UnknownKeys
ImportObjects ==
  {<<>>}
    \cup {<<[key |-> k, value |-> v]>> :
            k \in ImportKeys, v \in {Str("other"), Num(-1)}}
    \cup (IF MaxImportKeys >= 2
          THEN {<<[key |-> kj[1], value |-> Str("other")],
                  [key |-> kj[2], value |-> Num(-1)]>> :
                  kj \in {p \in ImportKeys \X ImportKeys : p[1] # p[2]}}
          ELSE {})

\* The calls of the study: an import of a text, or of an export.
SettingsArgs ==
  [fn : {"importSettings"}, into : SettingsStates,
   json : {StringifyObject(o) : o \in ImportObjects} \cup {NotJson, JsonNull}]
    \cup [fn : {"exportSettings"}, from : SettingsStates,
          into : SettingsStates]

InitSettings ==
  /\ args \in SettingsArgs
  /\ result = <<>>
  /\ StudyAsCreated

\* importSettings(json) on the state args.into.
CallImportSettings ==
  /\ result = <<>>
  /\ args.fn = "importSettings"
  /\ result' = ImportSettings(args.into, args.json)
  /\ UNCHANGED <<studyRest, args>>

\* importSettings(exportSettings()), the export taken in the state
\* args.from and imported in the state args.into.
CallExportThenImport ==
  /\ result = <<>>
  /\ args.fn = "exportSettings"
  /\ result' = ImportSettings(args.into, ExportSettings(args.from))
  /\ UNCHANGED <<studyRest, args>>

NextSettings ==
  \/ CallImportSettings
  \/ CallExportThenImport

SpecSettings == InitSettings /\ [][NextSettings]_vars

\* The keys of the imported object.
ImportedKeys == {args.json.members[i].key : i \in Indices(args.json.members)}

\* The value the imported object holds under key.
ImportedValue(key) ==
  LET i == CHOOSE i \in Indices(args.json.members) :
             args.json.members[i].key = key
  IN  ParseValue(args.json.members[i].text)

\* An export imported into any state returns true and gives the exporting
\* state on every recognized field.
ExportImportRoundTrip ==
  (result # <<>> /\ args.fn = "exportSettings") =>
    /\ result.ok
    /\ \A k \in SettingsKeys : result.state[k] = args.from[k]

\* Importing an object sets the recognized fields it holds and leaves the
\* other recognized fields as they were.
ImportSetsRecognizedKeys ==
  (result # <<>> /\ args.fn = "importSettings" /\ args.json.kind = "object") =>
    /\ result.ok
    /\ \A k \in SettingsKeys :
         result.state[k] = IF k \in ImportedKeys THEN ImportedValue(k)
                           ELSE args.into[k]

\* C21: an export imported into any settings state returns true and gives
\* the exporting state on every recognized field; importing an object that
\* holds some of the recognized keys sets exactly those fields, and a key
\* that is not recognized is ignored: the state gets no field of that name.
ImportExportAsStated ==
  /\ ExportImportRoundTrip
  /\ ImportSetsRecognizedKeys
  /\ (result # <<>> /\ args.fn = "importSettings") =>
       DOMAIN result.state = SettingsKeys


(***************************************************************************)
(* Thread expansion (mail store fetchThreadEmails, EmailList               *)
(* handleToggleThreadExpansion).                                           *)
(***************************************************************************)

MaxThreadCalls == 2

\* What Email/get answers for a thread: the ids of its emails.
ThreadAnswers == {<<>>, <<1>>, <<1, 2>>}

\* threadEmailsCache.get(threadId), undefined being the empty list here.
CachedEmails(threadId) ==
  IF threadId \in DOMAIN threadEmailsCache
  THEN threadEmailsCache[threadId] ELSE <<>>

\* newCache.set(threadId, emails)
CacheSet(cache, threadId, es) ==
  [t \in DOMAIN cache \cup {threadId} |->
     IF t = threadId THEN es ELSE cache[t]]

ThreadStep(op, phase, threadId, returned) ==
  [op |-> op, phase |-> phase, threadId |-> threadId, returned |-> returned,
   threw |-> FALSE]

threadRest ==
  <<storeVars, deleteAction, isAuthenticated, pending, ev, mutations, loads,
    server, hasMoreEmails, totalEmails, pageRest, env, fnVars, clientVars,
    authVars, readingVars, pushVars>>

\* handleToggleThreadExpansion: a collapsed thread is expanded and
\* fetchThreadEmails runs up to its await; an expanded one is collapsed.
HandleToggleThreadExpansion(threadId) ==
  /\ isAuthenticated
  /\ IF threadId \notin expandedThreadIds
     THEN /\ expandedThreadIds' = expandedThreadIds \cup {threadId}
          /\ IF CachedEmails(threadId) # <<>>
             THEN /\ tev' = ThreadStep("fetchThreadEmails", "cached",
                                       threadId, CachedEmails(threadId))
                  /\ UNCHANGED <<isLoadingThread, threadCalls>>
             ELSE /\ Len(threadCalls) < MaxThreadCalls
                  /\ isLoadingThread' = threadId
                  /\ threadCalls' =
                       Append(threadCalls,
                              [threadId |-> threadId,
                               account |-> SharedAccountOf(mailboxes,
                                                           selectedMailbox)])
                  /\ tev' = ThreadStep("fetchThreadEmails", "call",
                                       threadId, <<>>)
     ELSE /\ expandedThreadIds' = expandedThreadIds \ {threadId}
          /\ tev' = ThreadStep("toggleThreadExpansion", "done", threadId,
                               <<>>)
          /\ UNCHANGED <<isLoadingThread, threadCalls>>
  /\ UNCHANGED <<threadRest, threadEmailsCache>>

\* fetchThreadEmails, from the settling of client.getThreadEmails on.
FetchThreadEmailsDone(i, out, answer) ==
  /\ i \in Indices(threadCalls)
  /\ LET threadId == threadCalls[i].threadId
         es == IF out = "ok" THEN answer ELSE <<>>
     IN  /\ threadEmailsCache' =
               IF out = "ok" THEN CacheSet(threadEmailsCache, threadId, es)
               ELSE threadEmailsCache
         /\ tev' = ThreadStep("fetchThreadEmails",
                              IF out = "ok" THEN "done" ELSE "failed",
                              threadId, es)
  /\ isLoadingThread' = NULL
  /\ threadCalls' = RemoveAt(threadCalls, i)
  /\ UNCHANGED <<threadRest, expandedThreadIds>>

InitThreadLoad ==
  /\ server = [listing |-> <<>>, hasTrash |-> FALSE, hidden |-> 0]
  /\ deleteAction = "trash"
  /\ isAuthenticated = TRUE
  /\ emails = <<>>
  /\ mailboxes = ServerMailboxes(server)
  /\ selectedMailbox = "inbox"
  /\ selectedEmail = NoEmail
  /\ isLoading = FALSE
  /\ error = NULL
  /\ processingReadStatus = {}
  /\ selectedEmailIds = {}
  /\ pending = <<>>
  /\ ev = Idle
  /\ mutations = 0
  /\ loads = 0
  /\ PageAsCreated
  /\ emailsPerPage = DefaultEmailsPerPage
  /\ reportsTotal = FALSE
  /\ NoFunction
  /\ ClientAsCreated
  /\ SessionAsCreated
  /\ UiAsCreated

NextThreadLoad ==
  \/ \E threadId \in ThreadIds : HandleToggleThreadExpansion(threadId)
  \/ \E i \in 1..MaxThreadCalls, out \in Settled, answer \in ThreadAnswers :
       FetchThreadEmailsDone(i, out, answer)
  \/ \E mailboxId \in {"inbox", "archive"} : SelectMailbox(mailboxId)

SpecThreadLoad == InitThreadLoad /\ [][NextThreadLoad]_vars

\* The threads a getThreadEmails request is in flight for.
ThreadsInFlight == {threadCalls[i].threadId : i \in Indices(threadCalls)}

\* A thread with a non-empty cache entry is returned from the cache with
\* no request, and a failed fetch clears the marker and returns the empty
\* list without throwing.
CacheHitAndFailure ==
  [][/\ (tev'.op = "fetchThreadEmails" /\ tev'.phase \in {"cached", "call"}
           /\ tev'.threadId \in DOMAIN threadEmailsCache
           /\ threadEmailsCache[tev'.threadId] # <<>>
           /\ tev' # tev)
        => /\ tev'.phase = "cached"
           /\ tev'.returned = threadEmailsCache[tev'.threadId]
           /\ threadCalls' = threadCalls
     /\ (tev'.phase = "failed" /\ tev' # tev)
        => /\ isLoadingThread' = NULL
           /\ tev'.returned = <<>>
           /\ ~tev'.threw]_vars

\* C22: at most one getThreadEmails request is in flight, never two for
\* one thread, and isLoadingThread is the thread whose request is in
\* flight and null when none is.
ThreadLoadingIsSingleFlight ==
  /\ Len(threadCalls) <= 1
  /\ \A i, j \in Indices(threadCalls) :
       i # j => threadCalls[i].threadId # threadCalls[j].threadId
  /\ ThreadsInFlight = (IF isLoadingThread = NULL THEN {}
                        ELSE {isLoadingThread})


(***************************************************************************)
(* Automatic marking as read: the effects of Home, EmailViewer and         *)
(* EmailCard (src/unnamed/part_001, part_006, part_007).                   *)
(***************************************************************************)

NumReadingEmails == 3
DelayThreeSeconds == 3000

\* The values the settings page offers for markAsReadDelay.
MarkAsReadDelays == {0, DelayThreeSeconds, -1}

\* The emails shown: 1 and 3 unread, 2 read.
ReadingEmails == {ServerEmail(id) : id \in 1..NumReadingEmails}

\* The threads the list offers to open as a conversation.
Conversations ==
  {<<ServerEmail(3), ServerEmail(1)>>, <<ServerEmail(2), ServerEmail(1)>>,
   <<ServerEmail(2)>>}

\* A call markAsRead(client, id, true) and the code that made it.
Mark(id, by) == [id |-> id, by |-> by]

Reading(op, id, marks) == [op |-> op, id |-> id, marks |-> marks]

\* The mark-as-read effect of Home for the selected email e, its timer
\* cleared before: the calls it makes at once, and the timer it arms.
HomeEffectMarks(e) ==
  IF e # NoEmail /\ ~e.seen /\ markAsReadDelay = 0
  THEN {Mark(e.id, "Home")} ELSE {}

HomeEffectTimeout(e) ==
  IF e # NoEmail /\ ~e.seen /\ markAsReadDelay > 0 THEN e.id ELSE NoId

\* The effect of EmailViewer for the email it is given; the viewer is
\* not rendered while a conversation is open on mobile.
ViewerEffectMarks(e, rendered) ==
  IF rendered /\ e # NoEmail /\ ~e.seen
  THEN {Mark(e.id, "EmailViewer")} ELSE {}

\* The effect of the EmailCards of the emails es that are expanded.
CardEffectMarks(es, expanded) ==
  {Mark(es[i].id, "EmailCard") :
     i \in {k \in Indices(es) : /\ es[k].id \in expanded
                                /\ ~es[k].seen
                                /\ markAsReadDelay = 0}}

CardEffectTimeouts(es, expanded) ==
  {es[i].id :
     i \in {k \in Indices(es) : /\ es[k].id \in expanded
                                /\ ~es[k].seen
                                /\ markAsReadDelay > 0}}

\* ThreadConversationView: the most recent email and every unread one.
AutoExpanded(es) ==
  IF es = <<>> THEN {}
  ELSE {es[1].id} \cup {es[i].id : i \in {k \in Indices(es) : ~es[k].seen}}

readingRest ==
  <<emails, mailboxes, selectedMailbox, isLoading, error,
    processingReadStatus, selectedEmailIds, deleteAction, isAuthenticated,
    pending, ev, mutations, loads, server, hasMoreEmails, totalEmails,
    pageRest, env, fnVars, clientVars, authVars, threadVars, markAsReadDelay,
    isMobile, pushVars>>

\* handleEmailSelect, from the settling of client.getEmail on:
\* selectEmail(fullEmail), and the effects that follow the selection.
HandleEmailSelect(e) ==
  /\ isAuthenticated
  /\ e.id # selectedEmail.id
  /\ selectedEmail' = e
  /\ markAsReadTimeoutRef' = HomeEffectTimeout(e)
  /\ rev' = Reading("select", e.id,
                    HomeEffectMarks(e)
                      \cup ViewerEffectMarks(e, ~(isMobile /\ conversationThread)))
  /\ UNCHANGED <<readingRest, conversationThread, conversationEmails,
                 expandedIds, cardTimeouts>>

\* The timer of Home fires.
MarkAsReadTimeoutFires ==
  /\ markAsReadTimeoutRef # NoId
  /\ markAsReadTimeoutRef' = NoId
  /\ rev' = Reading("timeout", markAsReadTimeoutRef,
                    {Mark(markAsReadTimeoutRef, "Home timer")})
  /\ UNCHANGED <<readingRest, selectedEmail, conversationThread,
                 conversationEmails, expandedIds, cardTimeouts>>

\* handleOpenConversation, the thread's emails fetched (or its own taken),
\* and the effects of the conversation view and of its cards.
HandleOpenConversation(es) ==
  /\ isAuthenticated
  /\ isMobile
  /\ ~conversationThread
  /\ conversationThread' = TRUE
  /\ conversationEmails' = es
  /\ expandedIds' = AutoExpanded(es)
  /\ cardTimeouts' = CardEffectTimeouts(es, AutoExpanded(es))
  /\ rev' = Reading("openConversation", NoId,
                    CardEffectMarks(es, AutoExpanded(es)))
  /\ UNCHANGED <<readingRest, selectedEmail, markAsReadTimeoutRef>>

\* toggleExpanded of the conversation view: a collapsed card's effect is
\* cleaned up, an expanded card's effect runs.
ToggleExpanded(id) ==
  /\ conversationThread
  /\ id \in PageIds(conversationEmails)
  /\ LET expanded == IF id \in expandedIds THEN expandedIds \ {id}
                     ELSE expandedIds \cup {id}
     IN  /\ expandedIds' = expanded
         /\ cardTimeouts' =
              (cardTimeouts \ {id})
                \cup CardEffectTimeouts(conversationEmails, expanded \cap {id})
         /\ rev' = Reading("toggleExpanded", id,
                           CardEffectMarks(conversationEmails,
                                           expanded \cap {id}))
  /\ UNCHANGED <<readingRest, selectedEmail, markAsReadTimeoutRef,
                 conversationThread, conversationEmails>>

\* The timer of an EmailCard fires.
CardTimeoutFires(id) ==
  /\ id \in cardTimeouts
  /\ cardTimeouts' = cardTimeouts \ {id}
  /\ rev' = Reading("timeout", id, {Mark(id, "EmailCard timer")})
  /\ UNCHANGED <<readingRest, selectedEmail, markAsReadTimeoutRef,
                 conversationThread, conversationEmails, expandedIds>>

\* handleConversationReply: selectEmail(email) under the open
\* conversation, and Home's effect for the selection.
HandleConversationReply(e) ==
  /\ conversationThread
  /\ \E i \in Indices(conversationEmails) : conversationEmails[i] = e
  /\ e.id # selectedEmail.id
  /\ selectedEmail' = e
  /\ markAsReadTimeoutRef' = HomeEffectTimeout(e)
  /\ rev' = Reading("select", e.id,
                    HomeEffectMarks(e)
                      \cup ViewerEffectMarks(e, ~(isMobile /\ conversationThread)))
  /\ UNCHANGED <<readingRest, conversationThread, conversationEmails,
                 expandedIds, cardTimeouts>>

\* handleMobileBack: the conversation closed and its cards unmounted,
\* selectEmail(null), and Home's effect cleaned up.
HandleMobileBack ==
  /\ selectedEmail # NoEmail \/ conversationThread
  /\ selectedEmail' = NoEmail
  /\ markAsReadTimeoutRef' = NoId
  /\ conversationThread' = FALSE
  /\ conversationEmails' = <<>>
  /\ expandedIds' = {}
  /\ cardTimeouts' = {}
  /\ rev' = Reading("back", NoId, {})
  /\ UNCHANGED readingRest

InitReading ==
  /\ server = [listing |-> <<>>, hasTrash |-> FALSE, hidden |-> 0]
  /\ deleteAction = "trash"
  /\ isAuthenticated = TRUE
  /\ StoreAsCreated
  /\ PageAsCreated
  /\ emailsPerPage = DefaultEmailsPerPage
  /\ reportsTotal = FALSE
  /\ NoFunction
  /\ ClientAsCreated
  /\ SessionAsCreated
  /\ ThreadsAsCreated
  /\ PushAsCreated
  /\ ViewsAsMounted
  /\ markAsReadDelay \in MarkAsReadDelays
  /\ isMobile \in BOOLEAN

NextReading ==
  \/ \E e \in ReadingEmails : HandleEmailSelect(e)
  \/ MarkAsReadTimeoutFires
  \/ \E es \in Conversations : HandleOpenConversation(es)
  \/ \E id \in 1..NumReadingEmails : ToggleExpanded(id)
  \/ \E id \in 1..NumReadingEmails : CardTimeoutFires(id)
  \/ \E e \in ReadingEmails : HandleConversationReply(e)
  \/ HandleMobileBack

SpecReading == InitReading /\ [][NextReading]_vars

\* The delayed marks that are pending.
PendingTimeouts ==
  {Mark(id, "EmailCard timer") : id \in cardTimeouts}
    \cup (IF markAsReadTimeoutRef = NoId THEN {}
          ELSE {Mark(markAsReadTimeoutRef, "Home timer")})

Timers == {"Home timer", "EmailCard timer"}

\* C23: at most one delayed mark-as-read timer is pending in the whole
\* application, and a timer that fires marks the email that is selected
\* then: no timer armed for an email fires after the selection has moved
\* or was cleared.
OneTimerForTheSelection ==
  [][/\ Cardinality(PendingTimeouts') <= 1
     /\ rev' # rev =>
          \A m \in rev'.marks :
            m.by \in Timers => m.id = selectedEmail.id]_vars

\* C24: with markAsReadDelay = -1 no step of selecting or viewing marks an
\* email as read; with a delay above 0 only a timer that fired does; with
\* 0 the selection of an unread email marks it at once.
DelayIsHonoured ==
  [][rev' # rev =>
       /\ markAsReadDelay = -1 => rev'.marks = {}
       /\ markAsReadDelay > 0 => \A m \in rev'.marks : m.by \in Timers
       /\ (markAsReadDelay = 0 /\ rev'.op = "select" /\ ~selectedEmail'.seen)
            => \E m \in rev'.marks : m.id = selectedEmail'.id]_vars


(***************************************************************************)
(* The Email/set requests of the mail store for the emails of a shared     *)
(* mailbox (store: src/unnamed/part_017, client: src/unnamed/part_015).    *)
(***************************************************************************)

\* The Mailbox/get list of an account, with a trash or without.
RawTree(hasTrash) ==
  RawMailboxes
    \o (IF hasTrash THEN <<[id |-> "trash", parentId |-> "", role |-> "trash"]>>
        ELSE <<>>)

\* The store's mailboxes: those of the primary and of the shared account.
RECURSIVE StoreTree(_, _)
StoreTree(accounts, hasTrash) ==
  IF accounts = <<>> THEN <<>>
  ELSE [k \in Indices(RawTree(hasTrash)) |->
          AccountMailbox(Head(accounts), Head(accounts) = PrimaryAccount,
                         RawTree(hasTrash)[k])]
         \o StoreTree(Tail(accounts), hasTrash)

\* accountId || this.accountId ("" = undefined)
TargetAccountId(accountId) ==
  IF accountId # "" THEN accountId ELSE PrimaryAccount

\* trashMailbox.originalId || trashMailbox.id
TrashId(trashMailbox) ==
  IF trashMailbox.originalId # "" THEN trashMailbox.originalId
  ELSE trashMailbox.id

\* The Email/set request a client method sends: the account it names
\* and the mailbox id it holds ("" when it holds none).
EmailSet(method, accountId, mailboxId) ==
  [method |-> method, accountId |-> accountId, mailboxId |-> mailboxId]

\* The request of a store operation on emails of the selected mailbox,
\* destination being the mailbox id the caller passes to a move.
StoreRequest(op, mbs, selected, action, destination) ==
  LET accountId == SharedAccountOf(mbs, selected)
      trashMailbox == FindTrash(mbs, accountId)
  IN  CASE op = "markAsRead" ->
             EmailSet("markAsRead", TargetAccountId(accountId), "")
        [] op = "toggleStar" ->
             EmailSet("toggleStar", PrimaryAccount, "")
        [] op = "deleteEmail" ->
             IF DeleteMode(action, trashMailbox) = "trash"
             THEN EmailSet("moveToTrash", TargetAccountId(accountId),
                           TrashId(trashMailbox))
             ELSE EmailSet("deleteEmail", PrimaryAccount, "")
        [] op = "moveToMailbox" ->
             EmailSet("moveEmail", PrimaryAccount, destination)
        [] op = "batchMarkAsRead" ->
             EmailSet("batchMarkAsRead", PrimaryAccount, "")
        [] op = "batchDelete" ->
             EmailSet("batchDeleteEmails", PrimaryAccount, "")
        [] op = "batchMoveToMailbox" ->
             EmailSet("batchMoveEmails", PrimaryAccount, destination)

\* The ids of the store's mailboxes.
TreeIds(hasTrash) ==
  {StoreTree(SessionAccounts, hasTrash)[k].id :
     k \in Indices(StoreTree(SessionAccounts, hasTrash))}

ScopeArgs ==
  UNION {[fn : SingleOps \cup BatchOps, hasTrash : {hasTrash},
          selected : TreeIds(hasTrash), destination : TreeIds(hasTrash),
          action : {"trash", "permanent"}] : hasTrash \in BOOLEAN}

InitScope ==
  /\ args \in ScopeArgs
  /\ result = <<>>
  /\ StudyAsCreated

\* The store operation args.fn is called for an email of the selected
\* mailbox and sends its request.
CallMutation ==
  /\ result = <<>>
  /\ result' = StoreRequest(args.fn,
                            StoreTree(SessionAccounts, args.hasTrash),
                            args.selected, args.action, args.destination)
  /\ UNCHANGED <<studyRest, args>>

NextScope == CallMutation

SpecScope == InitScope /\ [][NextScope]_vars

\* The mailbox ids as the server knows them.
OriginalIds == {RawTree(TRUE)[k].id : k \in Indices(RawTree(TRUE))}

\* C25: a mutation request for an email of a shared mailbox names the
\* shared account and holds no namespaced mailbox id.
MutationsScopedToSharedAccount ==
  (/\ result # <<>>
   /\ FindMailbox(StoreTree(SessionAccounts, args.hasTrash),
                  args.selected).isShared)
    => /\ result.accountId = SharedAccount
       /\ result.mailboxId \in OriginalIds \cup {""}


(***************************************************************************)
(* The selection and the page.                                             *)
(***************************************************************************)

\* C26: every selected id is the id of an email of the current page.
SelectionWithinPage == selectedEmailIds \subseteq PageIds(emails)


(***************************************************************************)
(* List responses that arrive after the user moved on (Home                *)
(* handleMailboxSelect, store fetchEmails / loadMoreEmails, logout).       *)
(***************************************************************************)

\* handleMailboxSelect: selectMailbox(mailboxId), selectEmail(null) and
\* fetchEmails(client, mailboxId) up to its await.
HandleMailboxSelect(mailboxId) ==
  /\ CanCall
  /\ loads < MaxLoads
  /\ selectedMailbox' = mailboxId
  /\ selectedEmail' = NoEmail
  /\ selectedEmailIds' = {}
  /\ expandedThreadIds' = {}
  /\ threadEmailsCache' = NoThreads
  /\ isLoadingThread' = NULL
  /\ loads' = loads + 1
  /\ isLoading' = TRUE
  /\ error' = NULL
  /\ pending' = Append(pending, FetchEmailsCall(mailboxId))
  /\ ev' = Idle
  /\ UNCHANGED <<emails, mailboxes, processingReadStatus, deleteAction,
                 isAuthenticated, mutations, server, hasMoreEmails,
                 totalEmails, pageRest, env, fnVars, clientVars, authVars,
                 threadCalls, tev, readingVars, pushVars>>

InitStale ==
  /\ server = [listing |-> <<ServerEmail(2), ServerEmail(1)>>,
               hasTrash |-> FALSE, hidden |-> 0]
  /\ deleteAction = "trash"
  /\ isAuthenticated = TRUE
  /\ emails = <<>>
  /\ mailboxes = ServerMailboxes(server)
  /\ selectedMailbox = ""
  /\ selectedEmail = NoEmail
  /\ isLoading = FALSE
  /\ error = NULL
  /\ processingReadStatus = {}
  /\ selectedEmailIds = {}
  /\ pending = <<>>
  /\ ev = Idle
  /\ mutations = 0
  /\ loads = 0
  /\ PageAsCreated
  /\ emailsPerPage \in 1..MaxPerPage
  /\ reportsTotal \in BOOLEAN
  /\ NoFunction
  /\ ClientAsCreated
  /\ SessionAsCreated
  /\ UiAsCreated

NextStale ==
  \/ \E mailboxId \in {"inbox", "archive"} : HandleMailboxSelect(mailboxId)
  \/ \E i \in Indices(pending), out \in Settled : FetchEmailsDone(i, out)
  \/ LoadMoreEmails
  \/ \E i \in Indices(pending), out \in Settled : LoadMoreEmailsDone(i, out)
  \/ Logout

SpecStale == InitStale /\ [][NextStale]_vars

\* No list request is in flight.
NoListRequest ==
  \A i \in Indices(pending) :
    pending[i].op \notin {"fetchEmails", "loadMoreEmails"}

\* C27: whenever no list request is in flight, the page holds emails of
\* the selected mailbox only, and no email once the user logged out: a
\* response for a mailbox the user left is not applied.
NoStalePage ==
  NoListRequest =>
    /\ ~isAuthenticated => emails = <<>>
    /\ selectedMailbox # "" =>
         \A k \in Indices(emails) : selectedMailbox \in emails[k].mailboxIds


(***************************************************************************)
(* Updates committed while a load-more request is in flight.               *)
(***************************************************************************)

\* C28: loadMoreEmails commits onto the page current at its commit: the
\* page another operation left in the store while the request was in
\* flight is still there, in front of the emails appended.
CommitKeepsCurrentPage ==
  [][(ev'.op = "loadMoreEmails" /\ ev'.phase = "done")
       => /\ Len(emails') >= Len(emails)
          /\ SubSeq(emails', 1, Len(emails)) = emails]_vars


(***************************************************************************)
(* Reconciliations whose request fails.                                    *)
(***************************************************************************)

\* C29: a refreshCurrentMailbox whose first-page request failed leaves
\* emails, hasMoreEmails and totalEmails as they were, and no step of a
\* reconciliation replaces a non-empty mailbox list with an empty one.
FailedReconciliationKeepsData ==
  [][/\ (ev'.op = "refreshCurrentMailbox" /\ ev'.phase = "done"
           /\ ev'.out = "failed")
          => UNCHANGED <<emails, hasMoreEmails, totalEmails>>
     /\ mailboxes # <<>> => mailboxes' # <<>>]_vars


(***************************************************************************)
(* Home's load effect and the polling it sets up.  The effect depends on   *)
(* isAuthenticated, client and mailboxes.length; its cleanup closes the    *)
(* client's polling, its body runs loadData() while the store has no       *)
(* mailbox.  React runs the effect after the render that follows a commit, *)
(* before the page handles a later response or timer.                      *)
(***************************************************************************)

\* The load effect has run for the mailboxes.length the store holds.
EffectSettled == effectDeps = Len(mailboxes)

\* The effect re-runs: the cleanup of its last run
\* (client.closePushNotifications()), then its body, loadData() up to the
\* getAllMailboxes request of fetchMailboxes when mailboxes.length === 0.
LoadEffect ==
  /\ ~EffectSettled
  /\ effectDeps' = Len(mailboxes)
  /\ IF effectDeps # NoDeps
     THEN /\ pollTimers' = IF pollingInterval THEN pollTimers - 1 ELSE pollTimers
          /\ pollingInterval' = FALSE
          /\ stateChangeCallback' = FALSE
          /\ pollingStates' = NoStates
          /\ cancelled' = [cancelled EXCEPT !.poll = TRUE]
     ELSE UNCHANGED <<pollTimers, pollingInterval, stateChangeCallback,
                      pollingStates, cancelled>>
  /\ IF isAuthenticated /\ client # NoClient /\ Len(mailboxes) = 0
     THEN /\ loadData' = "fetchMailboxes"
          /\ isLoading' = TRUE
          /\ error' = NULL
          /\ pending' = Append(pending, Call("fetchMailboxes"))
     ELSE UNCHANGED <<loadData, isLoading, error, pending>>
  /\ ev' = Idle
  /\ cev' = NoTick
  /\ UNCHANGED <<emails, mailboxes, selectedEmail, selectedMailbox,
                 processingReadStatus, selectedEmailIds, deleteAction,
                 isAuthenticated, mutations, loads, server, hasMoreEmails,
                 totalEmails, pageRest, env, fnVars, apiUrl, clientAccountId,
                 pingInterval, clientCalls, serverStates, authVars,
                 threadVars, readingVars, isPushConnected>>

\* loadData after its first await: fetchMailboxes has committed the tree
\* (the inbox selected when nothing was), then fetchEmails(client,
\* selectedMailboxId) up to its request.
LoadDataMailboxesDone(i, out) ==
  /\ EffectSettled
  /\ loadData = "fetchMailboxes"
  /\ pending[i].op = "fetchMailboxes"
  /\ LET mbs == GetAllMailboxes(server, out)
     IN  /\ mailboxes' = mbs
         /\ selectedMailbox' =
              IF selectedMailbox = "" /\ FindInbox(mbs) # NoMailbox
              THEN FindInbox(mbs).id
              ELSE selectedMailbox
  /\ loadData' = "fetchEmails"
  /\ isLoading' = TRUE
  /\ error' = NULL
  /\ pending' = Append(RemoveAt(pending, i), FetchEmailsCall(selectedMailbox'))
  /\ ev' = Idle
  /\ UNCHANGED <<emails, selectedEmail, processingReadStatus,
                 selectedEmailIds, deleteAction, isAuthenticated, mutations,
                 loads, server, hasMoreEmails, totalEmails, pageRest, env,
                 fnVars, clientVars, authVars, threadVars, readingVars,
                 isPushConnected, effectDeps>>

\* loadData after its second await: fetchEmails has committed the page,
\* then client.onStateChange(callback), client.setupPushNotifications()
\* (which returns true) and setPushConnected(true).
LoadDataEmailsDone(i, out) ==
  /\ EffectSettled
  /\ loadData = "fetchEmails"
  /\ pending[i].op = "fetchEmails"
  /\ CanRequest
  /\ pollTimers < MaxTimers
  /\ LET page == GetEmails(server, reportsTotal, pending[i].dest,
                           emailsPerPage, 0, out)
     IN  /\ emails' = page.emails
         /\ hasMoreEmails' = page.hasMore
         /\ totalEmails' = page.total
  /\ isLoading' = FALSE
  /\ pending' = RemoveAt(pending, i)
  /\ loadData' = "done"
  /\ stateChangeCallback' = TRUE
  /\ clientCalls' = Append(clientCalls, ClientCall("fetchCurrentStates"))
  /\ pollingInterval' = TRUE
  /\ pollTimers' = pollTimers + 1
  /\ cancelled' = [cancelled EXCEPT !.poll = FALSE]
  /\ isPushConnected' = TRUE
  /\ ev' = Idle
  /\ cev' = NoTick
  /\ UNCHANGED <<mailboxes, selectedEmail, selectedMailbox, error,
                 processingReadStatus, selectedEmailIds, deleteAction,
                 isAuthenticated, mutations, loads, server, pageRest, env,
                 fnVars, apiUrl, clientAccountId, pingInterval, pollingStates,
                 serverStates, authVars, threadVars, readingVars, effectDeps>>

\* A poll of the live timer found a change and invokes the registered
\* callback: handleStateChange(change, client) up to its first await.
PolledChange(change) ==
  /\ EffectSettled
  /\ pollTimers > 0
  /\ stateChangeCallback
  /\ HandleStateChange(change)

\* Another client creates or destroys the trash mailbox.
ServerTreeChange ==
  /\ server' = [server EXCEPT !.hasTrash = ~@]
  /\ ev' = Idle
  /\ UNCHANGED <<storeVars, deleteAction, isAuthenticated, pending, mutations,
                 loads, ext>>

InitPush ==
  /\ server \in {w \in ServerWorlds : w.hidden = 0}
  /\ deleteAction = "trash"
  /\ isAuthenticated = TRUE
  /\ StoreAsCreated
  /\ PageAsCreated
  /\ emailsPerPage = DefaultEmailsPerPage
  /\ reportsTotal = FALSE
  /\ NoFunction
  /\ apiUrl = "api"
  /\ clientAccountId = PrimaryAccount
  /\ pingInterval = TRUE
  /\ pollingInterval = FALSE
  /\ pollTimers = 0
  /\ pollingStates = NoStates
  /\ stateChangeCallback = FALSE
  /\ clientCalls = <<>>
  /\ serverStates = [t \in PolledTypes |-> 1]
  /\ cancelled = [keepAlive |-> FALSE, poll |-> FALSE]
  /\ cev = NoTick
  /\ client = NewClient(TheUrl, TheUser, ThePassword, TRUE, 1)
  /\ serverUrl = TheUrl
  /\ username = TheUser
  /\ authLoading = FALSE
  /\ authError = NULL
  /\ persisted = Partialize(SessionState(TRUE, FALSE, NULL, TheUrl, TheUser,
                                         client))
  /\ lifetime = 1
  /\ logins = <<>>
  /\ UiAsCreated

NextPush ==
  \/ LoadEffect
  \/ \E i \in Indices(pending), out \in Settled : LoadDataMailboxesDone(i, out)
  \/ \E i \in Indices(pending), out \in Settled : LoadDataEmailsDone(i, out)
  \/ \E i \in Indices(clientCalls), out \in Settled :
       FetchCurrentStatesDone(i, out)
  \/ \E change \in Changes : PolledChange(change)
  \/ \E i \in Indices(pending), out \in Settled :
       EffectSettled /\ RefreshCurrentMailboxDone(i, out)
  \/ \E i \in Indices(pending), out \in Settled :
       EffectSettled /\ loadData # "fetchMailboxes" /\ FetchMailboxesDone(i, out)
  \/ ServerTreeChange

SpecPush == InitPush /\ [][NextPush]_vars

\* C30: whenever the store reports isPushConnected = true for the
\* authenticated user, the client's poll timer is active and the
\* state-change callback is registered.
PollingAliveWhileConnected ==
  (isAuthenticated /\ isPushConnected)
    => (pollingInterval /\ pollTimers > 0 /\ stateChangeCallback)

====
